---- MODULE Spec2Model ----
(***************************************************************************)
(* Verification model of herculas/vc-suite-eddsa: the Ed25519 keypair      *)
(* entity, the signature primitive and the eddsa-rdfc-2022 /               *)
(* eddsa-jcs-2022 proof pipelines.                                         *)
(*                                                                         *)
(* Byte strings are sequences of integers 0..255, text strings are         *)
(* sequences of one-character strings.  Key material (32 bytes) and        *)
(* SHA-256 digests (32 bytes) are scaled down to KeyLen and HashLen bytes. *)
(***************************************************************************)
EXTENDS Integers, Sequences, FiniteSets, TLC

VARIABLES
    sKey,      \* signature primitive: the keypair under test
    sMsg,      \* signature primitive: the message last signed
    sSig,      \* signature primitive: outcome of the last sign call
    sRes,      \* signature primitive: outcome of the last verify call
    kCtor,     \* keypair entity: the constructor arguments
    kKp,       \* keypair entity: the constructed keypair
    kInits,    \* keypair entity: number of completed initialize() calls
    kDoc,      \* keypair entity: outcome of the last export call
    kImp,      \* keypair entity: outcome of the last import call
    pHeap,     \* pipeline: the caller's objects and the running invocation's
    pInv,      \* pipeline: the running invocation, its stage and its locals
    pOut,      \* pipeline: how the last invocation ended
    pOrig,     \* pipeline: the caller's objects as they were passed in
    pProv,     \* pipeline: where the caller's secured document comes from
    cHeap,     \* concurrent pipelines: the caller's objects and each invocation's own
    cInv,      \* concurrent pipelines: the running invocations
    cOut,      \* concurrent pipelines: how each invocation ended
    cAlone,    \* concurrent pipelines: each invocation run alone on a copy of its arguments
    iCalls,    \* concurrent initialize: the running initialize() calls of the keypair
    dIn,       \* key codec: the raw key material under test
    dOut       \* key codec: the last call, its arguments and its outcome

sigVars == <<sKey, sMsg, sSig, sRes>>

kpVars == <<kCtor, kKp, kInits, kDoc, kImp>>

plVars == <<pHeap, pInv, pOut, pOrig, pProv>>

ccVars == <<cHeap, cInv, cOut, cAlone>>

inVars == <<iCalls>>

cdVars == <<dIn, dOut>>

vars == <<sigVars, kpVars, plVars, ccVars, inVars, cdVars>>

(***************************************************************************)
(* Bounds of the model.                                                    *)
(***************************************************************************)
\* number of key pairs the platform generator hands out
MaxPairs == 2
\* length of raw key material, scaled down from 32 bytes
KeyLen == 1
\* length of a SHA-256 digest, scaled down from 32 bytes
HashLen == 2

(***************************************************************************)
(* Outcomes of a call: a returned value or a raised error.                 *)
(***************************************************************************)
Returned(v) == [st |-> "returned", val |-> v]
Raised(e) == [st |-> "raised", val |-> e]
NotCalled == [st |-> "none", val |-> "none"]

\* JavaScript values that reach the signature primitive
BytesVal(b) == [kind |-> "Uint8Array", val |-> b]
StringVal(s) == [kind |-> "string", val |-> s]
Undefined == [kind |-> "undefined", val |-> <<>>]

(***************************************************************************)
(* base-58-btc                                                             *)
(***************************************************************************)
BASE_58_BTC == "z"

Base58Alphabet ==
    << "1","2","3","4","5","6","7","8","9",
       "A","B","C","D","E","F","G","H","J","K","L","M","N","P","Q","R","S",
       "T","U","V","W","X","Y","Z",
       "a","b","c","d","e","f","g","h","i","j","k","m","n","o","p","q","r",
       "s","t","u","v","w","x","y","z" >>

Base58Radix == Len(Base58Alphabet)
ByteRadix == 256

IsBase58Char(c) == \E i \in 1..Base58Radix : Base58Alphabet[i] = c
Base58Digit(c) == (CHOOSE i \in 1..Base58Radix : Base58Alphabet[i] = c) - 1

Reverse(s) == [i \in 1..Len(s) |-> s[Len(s) + 1 - i]]

RECURSIVE CarryDigits(_, _)
\* the digits (least significant first) of a remaining carry
CarryDigits(carry, radix) ==
    IF carry = 0 THEN <<>>
    ELSE <<carry % radix>> \o CarryDigits(carry \div radix, radix)

RECURSIVE MulAdd(_, _, _, _)
\* digits * mul + add, digits least significant first in the given radix
MulAdd(digits, mul, add, radix) ==
    IF digits = <<>> THEN CarryDigits(add, radix)
    ELSE LET v == Head(digits) * mul + add
         IN <<v % radix>> \o MulAdd(Tail(digits), mul, v \div radix, radix)

RECURSIVE Convert(_, _, _, _)
\* the number written by src (most significant first, radix from) as digits
\* (least significant first, radix to), accumulated into acc
Convert(src, from, to, acc) ==
    IF src = <<>> THEN acc
    ELSE Convert(Tail(src), from, to, MulAdd(acc, from, Head(src), to))

RECURSIVE LeadingCount(_, _)
LeadingCount(s, x) ==
    IF s # <<>> /\ Head(s) = x THEN 1 + LeadingCount(Tail(s), x) ELSE 0

encodeBase58(data) ==
    LET zeros == LeadingCount(data, 0)
        digits == Reverse(Convert(data, ByteRadix, Base58Radix, <<>>))
    IN [i \in 1..zeros |-> Base58Alphabet[1]]
         \o [i \in 1..Len(digits) |-> Base58Alphabet[digits[i] + 1]]

\* decodeBase58 raises on a character outside the alphabet
decodeBase58(str) ==
    IF \E i \in 1..Len(str) : ~IsBase58Char(str[i])
    THEN Raised("DECODING_ERROR")
    ELSE LET ds == [i \in 1..Len(str) |-> Base58Digit(str[i])]
             zeros == LeadingCount(ds, 0)
             bytes == Reverse(Convert(ds, Base58Radix, ByteRadix, <<>>))
         IN Returned([i \in 1..zeros |-> 0] \o bytes)

startsWith(str, prefix) == Len(str) >= 1 /\ str[1] = prefix

\* base58btc.encode / base58btc.decode of utils/encode.ts
base58btc_encode(data) == <<BASE_58_BTC>> \o encodeBase58(data)

base58btc_decode(data) ==
    IF ~startsWith(data, BASE_58_BTC)
    THEN Raised("DECODING_ERROR")
    ELSE decodeBase58(Tail(data))

(***************************************************************************)
(* Platform Ed25519 (Web Crypto), idealised: a private key is its seed,    *)
(* the public key is derived from it, and the deterministic signature of   *)
(* data under a seed names the public key and the data.                    *)
(***************************************************************************)
PublicKeyKind == "public"
PrivateKeyKind == "private"

CryptoKey(kind, material) == [type |-> kind, material |-> material]
NoKey == [type |-> "undefined", material |-> <<>>]
HasKey(k) == k.type # "undefined"

\* no verify call made yet
NoResult == [form |-> "none", message |-> <<>>, key |-> NoKey, out |-> NotCalled]

PublicOf(seed) == [i \in 1..Len(seed) |-> (seed[i] * 7 + 3) % ByteRadix]

\* the seed of the p-th generated pair
SeedOf(p) == [i \in 1..KeyLen |-> p + i - 1]

\* the messages that are signed
Msgs == { <<0>>, <<1>>, <<0, 1>>, <<255, 7>> }

\* crypto.subtle.sign("Ed25519", key, data)
SubtleSign(key, data) ==
    IF key.type = PrivateKeyKind
    THEN Returned(PublicOf(key.material) \o data)
    ELSE Raised("TypeError")

\* crypto.subtle.verify("Ed25519", key, signature, data)
SubtleVerify(key, signature, data) ==
    IF key.type = PublicKeyKind
    THEN Returned(signature = key.material \o data)
    ELSE Raised("TypeError")

\* generateKeypair(): the p-th fresh pair as CryptoKeys
generateKeypair(p) ==
    [ privateKey |-> CryptoKey(PrivateKeyKind, SeedOf(p)),
      publicKey |-> CryptoKey(PublicKeyKind, PublicOf(SeedOf(p))) ]

(***************************************************************************)
(* SHA-256, scaled to HashLen bytes: every output byte mixes the length    *)
(* and every input byte with a weight that depends on both positions.      *)
(***************************************************************************)
RECURSIVE Mix(_, _, _)
Mix(data, i, j) ==
    IF j > Len(data) THEN 0
    ELSE (data[j] * (2 * (i + j) + 1) + Mix(data, i, j + 1)) % ByteRadix

sha256(data) ==
    [i \in 1..HashLen |-> (i * 31 + Len(data) * 17 + Mix(data, i, 1)) % ByteRadix]

(***************************************************************************)
(* base64url (unpadded), as used inside JSON Web Keys.                     *)
(***************************************************************************)
Base64UrlAlphabet ==
    << "A","B","C","D","E","F","G","H","I","J","K","L","M","N","O","P","Q",
       "R","S","T","U","V","W","X","Y","Z",
       "a","b","c","d","e","f","g","h","i","j","k","l","m","n","o","p","q",
       "r","s","t","u","v","w","x","y","z",
       "0","1","2","3","4","5","6","7","8","9","-","_" >>

Base64Index(c) ==
    (CHOOSE i \in 1..Len(Base64UrlAlphabet) : Base64UrlAlphabet[i] = c) - 1

RECURSIVE ToBits(_, _)
\* the w-bit big-endian representation of n
ToBits(n, w) == IF w = 0 THEN <<>> ELSE ToBits(n \div 2, w - 1) \o <<n % 2>>

RECURSIVE FromBits(_)
FromBits(bits) ==
    IF bits = <<>> THEN 0
    ELSE 2 * FromBits(SubSeq(bits, 1, Len(bits) - 1)) + bits[Len(bits)]

RECURSIVE BitString(_, _)
\* the concatenated w-bit representations of the numbers of a sequence
BitString(nums, w) ==
    IF nums = <<>> THEN <<>> ELSE ToBits(Head(nums), w) \o BitString(Tail(nums), w)

\* the complete w-bit groups of a bit string, as numbers
Groups(bits, w) ==
    [i \in 1..(Len(bits) \div w) |-> FromBits(SubSeq(bits, (i - 1) * w + 1, i * w))]

encodeBase64Url(data) ==
    LET bits == BitString(data, 8)
        pad == (6 - (Len(bits) % 6)) % 6
        sextets == Groups(bits \o [i \in 1..pad |-> 0], 6)
    IN [i \in 1..Len(sextets) |-> Base64UrlAlphabet[sextets[i] + 1]]

decodeBase64Url(str) ==
    IF \E i \in 1..Len(str) : \A k \in 1..Len(Base64UrlAlphabet) : Base64UrlAlphabet[k] # str[i]
    THEN Raised("TypeError")
    ELSE Returned(Groups(BitString([i \in 1..Len(str) |-> Base64Index(str[i])], 6), 8))

(***************************************************************************)
(* Key codec: raw material, multibase strings and JSON Web Keys.           *)
(***************************************************************************)
TYPE_BASIC == "Ed25519VerificationKey2020"
TYPE_JWK == "JsonWebKey2020"
JWK_TYPE == "OKP"
ALGORITHM == "Ed25519"

PUBLIC_KEY_MULTIBASE == <<237, 1>>
PRIVATE_KEY_MULTIBASE == <<128, 38>>

MulticodecPrefix(flag) ==
    IF flag = PrivateKeyKind THEN PRIVATE_KEY_MULTIBASE ELSE PUBLIC_KEY_MULTIBASE

\* keyToMaterial(key, flag): the raw material of a CryptoKey
keyToMaterial(key, flag) ==
    IF key.type # flag THEN Raised("TypeError") ELSE Returned(key.material)

\* materialToKey(material, flag): import of raw material of the fixed length
materialToKey(material, flag) ==
    IF Len(material) # KeyLen THEN Raised("DataError")
    ELSE Returned(CryptoKey(flag, material))

\* materialToMultibase(material, flag)
materialToMultibase(material, flag) ==
    base58btc_encode(MulticodecPrefix(flag) \o material)

\* a decoder that keeps the multicodec prefix in front of the material
multibaseToMaterialKeepPrefix(multibase, flag) ==
    LET bytes == base58btc_decode(multibase)
    IN IF bytes.st = "raised" THEN Raised("FORMAT_ERROR") ELSE bytes

\* multibaseToMaterial(multibase, flag): rejects a wrong marker and a wrong
\* multicodec prefix, returns the material behind the prefix
multibaseToMaterial(multibase, flag) ==
    LET bytes == base58btc_decode(multibase)
        prefix == MulticodecPrefix(flag)
    IN IF bytes.st = "raised" THEN Raised("FORMAT_ERROR")
       ELSE IF \/ Len(bytes.val) < Len(prefix)
               \/ SubSeq(bytes.val, 1, Len(prefix)) # prefix
            THEN Raised("FORMAT_ERROR")
       ELSE Returned(SubSeq(bytes.val, Len(prefix) + 1, Len(bytes.val)))

\* a JSON Web Key; an absent member is the empty string
Jwk(x, d, ops) == [kty |-> JWK_TYPE, crv |-> ALGORITHM, x |-> x, d |-> d, key_ops |-> ops]
NoJwk == [kty |-> "", crv |-> "", x |-> <<>>, d |-> <<>>, key_ops |-> ""]
HasJwk(jwk) == jwk.kty # ""

\* keyToJwk(key, flag): d only under the private flag
keyToJwk(key, flag) ==
    IF ~HasKey(key) THEN Raised("TypeError")
    ELSE IF key.type = PrivateKeyKind /\ flag = PrivateKeyKind
         THEN Returned(Jwk(encodeBase64Url(PublicOf(key.material)),
                           encodeBase64Url(key.material), "sign"))
    ELSE IF key.type = PrivateKeyKind
         THEN Returned(Jwk(encodeBase64Url(PublicOf(key.material)), <<>>, "verify"))
    ELSE Returned(Jwk(encodeBase64Url(key.material), <<>>, "verify"))

\* jwkToKey(jwk, flag): under the public flag d is stripped before the import
jwkToKey(jwk, flag) ==
    LET member == IF flag = PrivateKeyKind THEN jwk.d ELSE jwk.x
        material == decodeBase64Url(member)
    IN IF ~HasJwk(jwk) \/ member = <<>> THEN Raised("DataError")
       ELSE IF material.st = "raised" THEN Raised("DataError")
       ELSE materialToKey(material.val, flag)

\* getJwkThumbprint(jwk): base64url of the digest of the required members
getJwkThumbprint(jwk) ==
    encodeBase64Url(sha256([i \in 1..Len(jwk.x) |-> Base64Index(jwk.x[i])]))

(***************************************************************************)
(* suite/core.ts: the signature primitive.                                 *)
(***************************************************************************)
\* sign(data, privateKey): Promise<Uint8Array>
sign(data, privateKey) ==
    LET signature == SubtleSign(privateKey, data)
    IN IF signature.st = "raised" THEN signature
       ELSE Returned(BytesVal(signature.val))

\* the try block of verify(data, signature, publicKey)
verifyTry(data, signature, publicKey) ==
    IF ~HasKey(publicKey) THEN Raised("KEY_NOT_FOUND")
    \* signature.startsWith is a method of strings only
    ELSE IF signature.kind # "string" THEN Raised("TypeError")
    ELSE IF ~startsWith(signature.val, BASE_58_BTC) THEN Raised("FORMAT_ERROR")
    ELSE LET signatureBytes == decodeBase58(Tail(signature.val))
         IN IF signatureBytes.st = "raised" THEN signatureBytes
            ELSE SubtleVerify(publicKey, signatureBytes.val, data)

\* a verify whose errors leave it
verifyWithoutCatch(data, signature, publicKey) ==
    LET r == verifyTry(data, signature, publicKey)
    IN IF r.st = "raised" THEN r
       ELSE Returned([verified |-> r.val, errors |-> "none"])

\* verify(data, signature, publicKey): the catch turns every error into a result
verify(data, signature, publicKey) ==
    LET r == verifyTry(data, signature, publicKey)
    IN IF r.st = "raised"
       THEN Returned([verified |-> FALSE, errors |-> r.val])
       ELSE Returned([verified |-> r.val, errors |-> "none"])

(***************************************************************************)
(* key/keypair.ts: the Ed25519Keypair entity.                              *)
(***************************************************************************)
\* the controller used by the callers, and an identifier given explicitly
Controller == << "d", "i", "d", ":", "1" >>
GivenId == << "d", "i", "d", ":", "1", "#", "k" >>

\* dates are milliseconds, W3C timestamps are whole seconds; Now is the clock
Now == 2000
NoDate == -1
NoTimestamp == -1
RevokedDates == { NoDate, 500, 3500 }
toW3CTimestampString(date) == date \div 1000
DateOf(timestamp) == timestamp * 1000

\* new Ed25519Keypair(_id, _controller, _revoked)
Ed25519Keypair(id, controller, revoked) ==
    [ id |-> id, controller |-> controller, revoked |-> revoked, type |-> TYPE_BASIC,
      publicKey |-> NoKey, privateKey |-> NoKey ]

\* a verification method document; an absent member is empty
NoDoc ==
    [ context |-> "", id |-> <<>>, type |-> "", controller |-> <<>>,
      revoked |-> NoTimestamp,
      publicKeyMultibase |-> <<>>, secretKeyMultibase |-> <<>>,
      publicKeyJwk |-> NoJwk, secretKeyJwk |-> NoJwk ]

\* getPublicKeyMultibase()
getPublicKeyMultibase(kp) ==
    IF ~HasKey(kp.publicKey) THEN Raised("LOGIC_ERROR")
    ELSE LET material == keyToMaterial(kp.publicKey, PublicKeyKind)
         IN IF material.st = "raised" THEN material
            ELSE Returned(materialToMultibase(material.val, PublicKeyKind))

\* getPrivateKeyMultibase()
getPrivateKeyMultibase(kp) ==
    IF ~HasKey(kp.privateKey) THEN Raised("LOGIC_ERROR")
    ELSE LET material == keyToMaterial(kp.privateKey, PrivateKeyKind)
         IN IF material.st = "raised" THEN material
            ELSE Returned(materialToMultibase(material.val, PrivateKeyKind))

\* generateFingerprint()
generateFingerprint(kp) == getPublicKeyMultibase(kp)

\* initialize(), with the p-th pair of the generator
initialize(kp, p) ==
    LET keypair == generateKeypair(p)
        keyed == [kp EXCEPT !.privateKey = keypair.privateKey,
                            !.publicKey = keypair.publicKey]
    IN IF keyed.controller # <<>> /\ keyed.id = <<>>
       THEN [keyed EXCEPT !.id = keyed.controller \o <<"#">> \o generateFingerprint(keyed).val]
       ELSE keyed

\* an export that writes whatever halves the keypair holds
toMultibaseHeldHalves(kp, flag) ==
    Returned([ NoDoc EXCEPT
        !.id = kp.id, !.type = kp.type, !.controller = kp.controller,
        !.secretKeyMultibase =
            IF HasKey(kp.privateKey)
            THEN materialToMultibase(kp.privateKey.material, PrivateKeyKind) ELSE <<>>,
        !.publicKeyMultibase =
            IF HasKey(kp.publicKey)
            THEN materialToMultibase(kp.publicKey.material, PublicKeyKind) ELSE <<>> ])

\* an export that writes the private JSON Web Key into publicKeyJwk
toJwkFromPrivate(kp, flag) ==
    LET jwk == keyToJwk(IF HasKey(kp.privateKey) THEN kp.privateKey ELSE kp.publicKey,
                        PrivateKeyKind)
    IN IF jwk.st = "raised" THEN jwk
       ELSE Returned([ NoDoc EXCEPT
                !.id = kp.id, !.type = TYPE_JWK, !.controller = kp.controller,
                !.publicKeyJwk = jwk.val ])

\* an export that leaves the identifier of the keypair in the document
toJwkKeepId(kp, flag) ==
    LET secret == IF flag = PrivateKeyKind THEN keyToJwk(kp.privateKey, PrivateKeyKind)
                  ELSE Returned(NoJwk)
        public == keyToJwk(kp.publicKey, PublicKeyKind)
    IN IF secret.st = "raised" THEN secret
       ELSE IF public.st = "raised" THEN public
       ELSE Returned([ NoDoc EXCEPT
                !.id = kp.id,
                !.type = TYPE_JWK,
                !.controller = kp.controller,
                !.revoked = IF kp.revoked # NoDate THEN toW3CTimestampString(kp.revoked)
                            ELSE NoTimestamp,
                !.secretKeyJwk = secret.val,
                !.publicKeyJwk = public.val ])

\* toJwk(flag)
toJwk(kp, flag) ==
    LET secret == IF flag = PrivateKeyKind THEN keyToJwk(kp.privateKey, PrivateKeyKind)
                  ELSE Returned(NoJwk)
        public == keyToJwk(kp.publicKey, PublicKeyKind)
    IN IF secret.st = "raised" THEN secret
       ELSE IF public.st = "raised" THEN public
       ELSE Returned([ NoDoc EXCEPT
                !.id = kp.controller \o <<"#">> \o getJwkThumbprint(public.val),
                !.type = TYPE_JWK,
                !.controller = kp.controller,
                !.revoked = IF kp.revoked # NoDate THEN toW3CTimestampString(kp.revoked)
                            ELSE NoTimestamp,
                !.secretKeyJwk = secret.val,
                !.publicKeyJwk = public.val ])

\* toMultibase(flag)
toMultibase(kp, flag) ==
    LET secret == IF flag = PrivateKeyKind THEN getPrivateKeyMultibase(kp)
                  ELSE Returned(<<>>)
        public == getPublicKeyMultibase(kp)
    IN IF secret.st = "raised" THEN secret
       ELSE IF public.st = "raised" THEN public
       ELSE Returned([ NoDoc EXCEPT
                !.id = kp.id,
                !.type = kp.type,
                !.controller = kp.controller,
                !.revoked = IF kp.revoked # NoDate THEN toW3CTimestampString(kp.revoked)
                            ELSE NoTimestamp,
                !.secretKeyMultibase = secret.val,
                !.publicKeyMultibase = public.val ])

\* an export that does not look at id and controller
exportWithoutIdCheck(kp, options) ==
    LET flag == IF options.flag = "" THEN PublicKeyKind ELSE options.flag
    IN IF \/ (flag = PrivateKeyKind /\ ~HasKey(kp.privateKey))
          \/ (flag = PublicKeyKind /\ ~HasKey(kp.publicKey))
       THEN Raised("LOGIC_ERROR")
       ELSE IF options.type = "jwk" THEN toJwk(kp, flag)
       ELSE IF options.type = "multibase" THEN toMultibase(kp, flag)
       ELSE Raised("LOGIC_ERROR")

\* export(options); an omitted flag is the empty string
export(kp, options) ==
    LET flag == IF options.flag = "" THEN PublicKeyKind ELSE options.flag
    IN IF \/ (flag = PrivateKeyKind /\ ~HasKey(kp.privateKey))
          \/ (flag = PublicKeyKind /\ ~HasKey(kp.publicKey))
       THEN Raised("LOGIC_ERROR")
       ELSE IF kp.id = <<>> \/ kp.controller = <<>> THEN Raised("LOGIC_ERROR")
       ELSE IF options.type = "jwk" THEN toJwk(kp, flag)
       ELSE IF options.type = "multibase" THEN toMultibase(kp, flag)
       ELSE Raised("LOGIC_ERROR")

\* includeContext(document, [SUITE_2020, CID_V1])
includeContext(document) == document.context = "suite"

\* fromJwk(document, revoked)
fromJwk(document, revoked) ==
    LET private == IF HasJwk(document.secretKeyJwk)
                   THEN jwkToKey(document.secretKeyJwk, PrivateKeyKind)
                   ELSE Returned(NoKey)
        public == IF HasJwk(document.publicKeyJwk)
                  THEN jwkToKey(document.publicKeyJwk, PublicKeyKind)
                  ELSE Returned(NoKey)
    IN IF private.st = "raised" THEN private
       ELSE IF public.st = "raised" THEN public
       ELSE IF ~HasJwk(document.secretKeyJwk) /\ ~HasJwk(document.publicKeyJwk)
            THEN Raised("DECODING_ERROR")
       ELSE Returned([ Ed25519Keypair(document.id, document.controller, revoked) EXCEPT
                !.privateKey = private.val, !.publicKey = public.val ])

\* one half of fromMultibase: decode the member, import the material
FromMultibaseMember(member, flag) ==
    IF member = <<>> THEN Returned(NoKey)
    ELSE LET material == multibaseToMaterial(member, flag)
         IN IF material.st = "raised" THEN material
            ELSE materialToKey(material.val, flag)

\* fromMultibase(document, revoked)
fromMultibase(document, revoked) ==
    LET private == FromMultibaseMember(document.secretKeyMultibase, PrivateKeyKind)
        public == FromMultibaseMember(document.publicKeyMultibase, PublicKeyKind)
    IN IF private.st = "raised" THEN private
       ELSE IF public.st = "raised" THEN public
       ELSE IF document.secretKeyMultibase = <<>> /\ document.publicKeyMultibase = <<>>
            THEN Raised("DECODING_ERROR")
       ELSE Returned([ Ed25519Keypair(document.id, document.controller, revoked) EXCEPT
                !.privateKey = private.val, !.publicKey = public.val ])

\* an import that refuses every revoked document, whatever checkRevoked says
importRefusingRevoked(document, options) ==
    LET revoked == IF document.revoked # NoTimestamp THEN DateOf(document.revoked)
                   ELSE NoDate
    IN IF options.checkContext /\ ~includeContext(document) THEN Raised("FORMAT_ERROR")
       ELSE IF document.type # TYPE_BASIC /\ document.type # TYPE_JWK
            THEN Raised("FORMAT_ERROR")
       ELSE IF revoked # NoDate /\ revoked < Now THEN Raised("EXPIRED_KEYPAIR")
       ELSE IF options.type = "jwk" THEN fromJwk(document, revoked)
       ELSE IF options.type = "multibase" THEN fromMultibase(document, revoked)
       ELSE Raised("DECODING_ERROR")

\* Ed25519Keypair.import(document, options)
import(document, options) ==
    LET revoked == IF document.revoked # NoTimestamp THEN DateOf(document.revoked)
                   ELSE NoDate
    IN IF options.checkContext /\ ~includeContext(document) THEN Raised("FORMAT_ERROR")
       ELSE IF document.type # TYPE_BASIC /\ document.type # TYPE_JWK
            THEN Raised("FORMAT_ERROR")
       ELSE IF revoked # NoDate /\ options.checkRevoked /\ revoked < Now
            THEN Raised("EXPIRED_KEYPAIR")
       ELSE IF options.type = "jwk" THEN fromJwk(document, revoked)
       ELSE IF options.type = "multibase" THEN fromMultibase(document, revoked)
       ELSE Raised("DECODING_ERROR")

(***************************************************************************)
(* Documents, proofs and the objects of a pipeline invocation.             *)
(***************************************************************************)
GENERAL_PROOF_TYPE == "DataIntegrityProof"
SUITE_RDFC == "eddsa-rdfc-2022"
SUITE_JCS == "eddsa-jcs-2022"

\* a JSON-LD @context member: absent, one URL, or an array of URLs
NoContext == [kind |-> "absent", items |-> <<>>]
ContextString(url) == [kind |-> "string", items |-> <<url>>]
ContextArray(urls) == [kind |-> "array", items |-> urls]
Contexts ==
    { NoContext, ContextString("credentials/v2"), ContextArray(<<"credentials/v2">>),
      ContextArray(<<"credentials/v2", "examples/v2">>) }

\* JavaScript truthiness of a @context member and of a string member
ContextTruthy(context) == context.kind # "absent"
isArray(context) == context.kind = "array"

\* the created member: absent, or a string
NoCreated == "undefined"
CreatedValues ==
    { NoCreated, "", "1970-01-01T00:00:00Z", "2025-01-17T16:09:46Z", "yesterday" }
CreatedTruthy(created) == created # NoCreated /\ created # ""

\* Date.parse(created): NaN is -1, otherwise the milliseconds since the epoch
NaN == -1
DateParse(created) ==
    CASE created = "1970-01-01T00:00:00Z" -> 0
      [] created = "2025-01-17T16:09:46Z" -> 1737130186
      [] OTHER -> NaN
\* !Date.parse(created): NaN and 0 are falsy
NotDateParse(created) == DateParse(created) = NaN \/ DateParse(created) = 0

\* a proof object; defined = FALSE is the value undefined
Proof(type, cryptosuite, created, verificationMethod) ==
    [ defined |-> TRUE, context |-> NoContext, type |-> type, cryptosuite |-> cryptosuite,
      created |-> created, verificationMethod |-> verificationMethod,
      proofPurpose |-> "assertionMethod", hasProofValue |-> FALSE, proofValue |-> <<>> ]

NoProof ==
    [ defined |-> FALSE, context |-> NoContext, type |-> "", cryptosuite |-> "",
      created |-> NoCreated, verificationMethod |-> "",
      proofPurpose |-> "", hasProofValue |-> FALSE, proofValue |-> <<>> ]

\* a credential: its @context, its claims and its proof
Credential(context, claims) == [context |-> context, claims |-> claims, proof |-> NoProof]

NoCredential == [context |-> NoContext, claims |-> "", proof |-> NoProof]

\* the verification methods behind the document loader
MethodIds == { "did:1#full", "did:1#public", "did:1#secret", "did:1#unknown" }

\* the keypair whose exports the loader serves
LoaderKeypair ==
    [ initialize(Ed25519Keypair(<<>>, Controller, NoDate), 1) EXCEPT !.id = GivenId ]

\* document.retrieveVerificationMethod(id, ..., {documentLoader})
retrieveVerificationMethod(id) ==
    CASE id = "did:1#full" -> toMultibase(LoaderKeypair, PrivateKeyKind)
      [] id = "did:1#public" -> toMultibase(LoaderKeypair, PublicKeyKind)
      [] id = "did:1#secret" ->
            Returned([ toMultibase(LoaderKeypair, PrivateKeyKind).val
                       EXCEPT !.publicKeyMultibase = <<>> ])
      [] OTHER -> Raised("INVALID_VERIFICATION_METHOD")

\* Ed25519Keypair.import(method): the decode path follows the declared type
importMethod(method) ==
    import(method, [ type |-> IF method.type = TYPE_JWK THEN "jwk" ELSE "multibase",
                     checkContext |-> FALSE, checkRevoked |-> FALSE ])

(***************************************************************************)
(* Canonical forms.  A canonical string is the byte sequence of its        *)
(* members' codes.  JCS keeps the JSON shape of @context; RDF dataset      *)
(* canonicalization expands it, so one URL and the array of that URL are   *)
(* the same dataset, and without a @context no term is defined.            *)
(***************************************************************************)
UrlCode(url) == IF url = "credentials/v2" THEN 1 ELSE 2
ClaimsCode(claims) == IF claims = "alumni" THEN 11 ELSE 12
TypeCode(type) == IF type = GENERAL_PROOF_TYPE THEN 21 ELSE 22
SuiteCode(cryptosuite) == IF cryptosuite = SUITE_RDFC THEN 31 ELSE 32
CreatedCode(created) ==
    CASE created = NoCreated -> <<>>
      [] created = "" -> <<40>>
      [] created = "1970-01-01T00:00:00Z" -> <<40, 41>>
      [] created = "2025-01-17T16:09:46Z" -> <<40, 42>>
      [] OTHER -> <<40, 43>>
MethodCode(id) ==
    CASE id = "did:1#full" -> 51
      [] id = "did:1#public" -> 52
      [] id = "did:1#secret" -> 53
      [] OTHER -> 54
CharCode(c) == IF IsBase58Char(c) THEN 100 + Base58Digit(c) ELSE 99

UrlCodes(context) == [i \in 1..Len(context.items) |-> UrlCode(context.items[i])]

ContextJson(context) ==
    CASE context.kind = "absent" -> <<>>
      [] context.kind = "string" -> <<201>> \o UrlCodes(context)
      [] OTHER -> <<202>> \o UrlCodes(context) \o <<203>>

ProofMembers(proof) ==
    <<TypeCode(proof.type), SuiteCode(proof.cryptosuite)>> \o CreatedCode(proof.created)
        \o <<MethodCode(proof.verificationMethod)>>
        \o ( IF proof.hasProofValue
             THEN <<60>> \o [i \in 1..Len(proof.proofValue) |-> CharCode(proof.proofValue[i])]
             ELSE <<>> )

\* jcs.canonize of a proof object and of a credential
JcsProof(proof) == ContextJson(proof.context) \o ProofMembers(proof)

JcsCredential(credential) ==
    ContextJson(credential.context) \o <<ClaimsCode(credential.claims)>>
        \o (IF credential.proof.defined THEN <<70>> \o JcsProof(credential.proof) ELSE <<>>)

\* rdfc.normalize of a proof configuration and of a credential
RdfcProof(proof) ==
    IF ~ContextTruthy(proof.context) THEN <<>>
    ELSE UrlCodes(proof.context) \o <<204>> \o ProofMembers(proof)

RdfcCredential(credential) ==
    IF ~ContextTruthy(credential.context) THEN <<>>
    ELSE UrlCodes(credential.context) \o <<204, ClaimsCode(credential.claims)>>
            \o ( IF credential.proof.defined
                 THEN <<70>> \o RdfcProof([credential.proof EXCEPT !.context = credential.context])
                 ELSE <<>> )

(***************************************************************************)
(* The objects of one invocation.  The caller owns doc (the document) and  *)
(* opts (the proof options); unsecured, proof and config are the objects   *)
(* the invocation makes.  A reference names one of them, or the proof      *)
(* member of the caller's document.                                        *)
(***************************************************************************)
EmptyHeap ==
    [ doc |-> NoCredential, opts |-> NoProof, unsecured |-> NoCredential,
      proof |-> NoProof, config |-> NoProof ]

ReadProof(h, ref) == IF ref = "doc.proof" THEN h.doc.proof ELSE h[ref]
WriteProof(h, ref, value) ==
    IF ref = "doc.proof" THEN [h EXCEPT !.doc.proof = value] ELSE [h EXCEPT ![ref] = value]

\* a clone that is the object itself
sameObject(source, fresh) == source

\* structuredClone(source): the reference of the fresh copy
structuredClone(source, fresh) == fresh

\* the heap after const x = structuredClone(source)
CloneProof(h, source, fresh) ==
    WriteProof(h, structuredClone(source, fresh), ReadProof(h, source))
CloneCredential(h, source, fresh) ==
    [h EXCEPT ![structuredClone(source, fresh)] = h[source]]

\* the result of a stage: the heap it leaves, and its value or its error
Done(h, value) == [st |-> "returned", err |-> "", h |-> h, val |-> value]
Fail(h, error) == [st |-> "raised", err |-> error, h |-> h, val |-> <<>>]

(***************************************************************************)
(* suite/core.ts: the stages of the pipelines.                             *)
(***************************************************************************)
\* the checks shared by configRDFC and configJCS
ConfigError(proofConfig, suite) ==
    \/ proofConfig.type # GENERAL_PROOF_TYPE \/ proofConfig.cryptosuite # suite
    \/ CreatedTruthy(proofConfig.created) /\ NotDateParse(proofConfig.created)

\* configRDFC(unsecuredDocument, options)
configRDFC(h, document, proof) ==
    LET proofConfig == structuredClone(proof, "config")
        h1 == CloneProof(h, proof, "config")
        h2 == WriteProof(h1, proofConfig,
                  [ReadProof(h1, proofConfig) EXCEPT !.context = h1[document].context])
    IN IF ConfigError(ReadProof(h1, proofConfig), SUITE_RDFC)
       THEN Fail(h1, "PROOF_GENERATION_ERROR")
       ELSE Done(h2, RdfcProof(ReadProof(h2, proofConfig)))

\* configJCS(options)
configJCS(h, proof) ==
    LET proofConfig == structuredClone(proof, "config")
        h1 == CloneProof(h, proof, "config")
    IN IF ConfigError(ReadProof(h1, proofConfig), SUITE_JCS)
       THEN Fail(h1, "PROOF_GENERATION_ERROR")
       ELSE Done(h1, JcsProof(ReadProof(h1, proofConfig)))

\* a transformRDFC that does not look at the type and the cryptosuite
transformUnchecked(h, document, proof) == Done(h, RdfcCredential(h[document]))

\* transformRDFC(unsecuredDocument, options)
transformRDFC(h, document, proof) ==
    IF \/ ReadProof(h, proof).type # GENERAL_PROOF_TYPE
       \/ ReadProof(h, proof).cryptosuite # SUITE_RDFC
    THEN Fail(h, "PROOF_TRANSFORMATION_ERROR")
    ELSE Done(h, RdfcCredential(h[document]))

\* transformJCS(unsecuredDocument, options)
transformJCS(h, document, proof) ==
    IF \/ ReadProof(h, proof).type # GENERAL_PROOF_TYPE
       \/ ReadProof(h, proof).cryptosuite # SUITE_JCS
    THEN Fail(h, "PROOF_TRANSFORMATION_ERROR")
    ELSE Done(h, JcsCredential(h[document]))

\* a hash whose halves are in the other order
hashDocumentFirst(transformedDocument, canonicalProofConfig) ==
    sha256(transformedDocument) \o sha256(canonicalProofConfig)

\* hash(transformedDocument, canonicalProofConfig)
hash(transformedDocument, canonicalProofConfig) ==
    sha256(canonicalProofConfig) \o sha256(transformedDocument)

\* the keypair behind options.proof.verificationMethod
ImportRetrieved(method) ==
    IF method.st = "raised" THEN method ELSE importMethod(method.val)
MethodKeypair(proof) == ImportRetrieved(retrieveVerificationMethod(proof.verificationMethod))

\* serialize(hashData, options)
SignWith(keypair, hashData) ==
    IF keypair.st = "raised" THEN keypair
    ELSE IF ~HasKey(keypair.val.privateKey) THEN Raised("INVALID_VERIFICATION_METHOD")
    ELSE SubtleSign(keypair.val.privateKey, hashData)

\* a serialize that returns the hash data unsigned
serializeUnsigned(hashData, proof) == Returned(hashData)

serialize(hashData, proof) == SignWith(MethodKeypair(proof), hashData)

\* verify(hashData, proofBytes, options) of the pipeline
VerifyWith(keypair, hashData, proofBytes) ==
    IF keypair.st = "raised" THEN keypair
    ELSE IF ~HasKey(keypair.val.publicKey) THEN Raised("INVALID_VERIFICATION_METHOD")
    ELSE SubtleVerify(keypair.val.publicKey, proofBytes, hashData)
verifyProofBytes(hashData, proofBytes, proof) ==
    VerifyWith(MethodKeypair(proof), hashData, proofBytes)

(***************************************************************************)
(* suite/rdfc.ts, suite/jcs.ts: createProof and verifyProof up to their    *)
(* first stage.                                                            *)
(***************************************************************************)
NoInvocation ==
    [ op |-> "none", suite |-> "", pc |-> "", document |-> "", options |-> "",
      configOf |-> "", result |-> "", canonicalProofConfig |-> <<>>,
      canonicalDocument |-> <<>>, hashData |-> <<>>, proofBytes |-> <<>> ]

NoOutcome ==
    [ op |-> "none", suite |-> "", st |-> "none", err |-> "", verified |-> FALSE,
      verifiedDocument |-> NoCredential, proof |-> NoProof ]

NoProvenance == [state |-> "none", suite |-> "", unsecured |-> NoCredential]

\* an invocation that goes on to its stages, returns early, or raises
Continue(h, frame) == [st |-> "continue", err |-> "", h |-> h, frame |-> frame]
ReturnEarly(h, error) == [st |-> "returned", err |-> error, h |-> h, frame |-> NoInvocation]
RaiseEarly(h, error) == [st |-> "raised", err |-> error, h |-> h, frame |-> NoInvocation]

\* EddsaRdfc2022.createProof, before configRdfc
RdfcCreateEntry(h) ==
    Continue(CloneProof(h, "opts", "proof"),
             [ NoInvocation EXCEPT !.op = "createProof", !.suite = SUITE_RDFC,
                 !.pc = "configure", !.document = "doc", !.options = "opts",
                 !.configOf = "opts", !.result = structuredClone("opts", "proof") ])

\* EddsaJcs2022.createProof, before configJcs
JcsCreateEntry(h) ==
    LET cloneProof == structuredClone("opts", "proof")
        h1 == CloneProof(h, "opts", "proof")
        h2 == IF ContextTruthy(h1.doc.context)
              THEN WriteProof(h1, cloneProof,
                       [ReadProof(h1, cloneProof) EXCEPT !.context = h1.doc.context])
              ELSE h1
    IN Continue(h2,
             [ NoInvocation EXCEPT !.op = "createProof", !.suite = SUITE_JCS,
                 !.pc = "configure", !.document = "doc", !.options = "opts",
                 !.configOf = cloneProof, !.result = cloneProof ])

\* a proof that keeps its proofValue
keepProofValue(proof) == proof

\* delete proofOptions.proofValue
deleteProofValue(proof) == [proof EXCEPT !.hasProofValue = FALSE, !.proofValue = <<>>]

\* verifyProof of both suites, up to the decoding of proofValue
VerifyEntry(h, suite) ==
    LET unsecuredCredential == structuredClone("doc", "unsecured")
        h1 == CloneCredential(h, "doc", "unsecured")
        h2 == [h1 EXCEPT ![unsecuredCredential].proof = NoProof]
        proofOptions == structuredClone("doc.proof", "proof")
        h3 == CloneProof(h2, "doc.proof", "proof")
        h4 == WriteProof(h3, proofOptions, deleteProofValue(ReadProof(h3, proofOptions)))
        proofBytes == base58btc_decode(h4.doc.proof.proofValue)
    IN IF ~h2.doc.proof.defined THEN RaiseEarly(h2, "TypeError")
       ELSE IF ~h4.doc.proof.hasProofValue THEN RaiseEarly(h4, "TypeError")
       ELSE IF proofBytes.st = "raised" THEN RaiseEarly(h4, proofBytes.val)
       ELSE Continue(h4,
                [ NoInvocation EXCEPT !.op = "verifyProof", !.suite = suite,
                    !.pc = "transform", !.document = unsecuredCredential,
                    !.options = proofOptions, !.configOf = proofOptions,
                    !.proofBytes = proofBytes.val ])

\* EddsaRdfc2022.verifyProof, before transformRdfc
RdfcVerifyEntry(h) == VerifyEntry(h, SUITE_RDFC)

\* a verifyProof of eddsa-jcs-2022 that does not compare the contexts
JcsVerifyEntryUncompared(h) == VerifyEntry(h, SUITE_JCS)

\* EddsaJcs2022.verifyProof, before transformJcs: the @context of the proof
\* must open the @context of the secured document, and replaces it
JcsVerifyEntry(h) ==
    LET entry == VerifyEntry(h, SUITE_JCS)
        proofOptions == ReadProof(entry.h, entry.frame.options)
        proofContext == proofOptions.context.items
        securedContext == entry.h.doc.context.items
    IN IF entry.st # "continue" \/ ~ContextTruthy(proofOptions.context) THEN entry
       ELSE IF ~ContextTruthy(entry.h.doc.context)
            THEN ReturnEarly(entry.h, "PROOF_VERIFICATION_ERROR")
       ELSE IF \/ Len(securedContext) < Len(proofContext)
               \/ \E index \in 1..Len(proofContext) :
                      proofContext[index] # securedContext[index]
            THEN ReturnEarly(entry.h, "PROOF_VERIFICATION_ERROR")
       ELSE Continue([entry.h EXCEPT ![entry.frame.document].context =
                                        ContextArray(proofContext)],
                     entry.frame)

(***************************************************************************)
(* Keypair entity: a keypair is constructed, initialized, exported and     *)
(* imported.                                                               *)
(***************************************************************************)
\* the pipeline at rest
PlIdle ==
    /\ pHeap = EmptyHeap
    /\ pInv = NoInvocation
    /\ pOut = NoOutcome
    /\ pOrig = [doc |-> NoCredential, opts |-> NoProof]
    /\ pProv = NoProvenance

\* the invocations that run side by side, and the objects each one makes
Slots == {1, 2}
NoLocals == [unsecured |-> NoCredential, proof |-> NoProof, config |-> NoProof]

\* an invocation between two stages, and an invocation that has ended
Running(h, frame) == [st |-> "running", h |-> h, frame |-> frame, out |-> NoOutcome]
Ended(h, out) == [st |-> "ended", h |-> h, frame |-> NoInvocation, out |-> out]
NotStarted == [st |-> "none", h |-> EmptyHeap, frame |-> NoInvocation, out |-> NoOutcome]

\* the run of an invocation alone, the arguments it was called with, and
\* whether another invocation was running during one of its steps
NoAlone ==
    [ run |-> NotStarted, args |-> [doc |-> NoCredential, opts |-> NoProof],
      overlapped |-> FALSE ]

\* the concurrent pipelines at rest
CcIdle ==
    /\ cHeap = [doc |-> NoCredential, opts |-> NoProof, own |-> [i \in Slots |-> NoLocals]]
    /\ cInv = [i \in Slots |-> NoInvocation]
    /\ cOut = [i \in Slots |-> NoOutcome]
    /\ cAlone = [i \in Slots |-> NoAlone]

\* no initialize() call is running
InIdle == iCalls = <<>>

\* the outcome of a key codec call, before any call
NoCodecCall == [op |-> "none", flag |-> "", arg |-> <<>>, out |-> NotCalled]

\* the key codec at rest
CdIdle ==
    /\ dIn = <<>>
    /\ dOut = NoCodecCall

\* the signature primitive at rest
SigIdle ==
    /\ sKey = [publicKey |-> NoKey, privateKey |-> NoKey, pair |-> 0]
    /\ sMsg = <<>>
    /\ sSig = NotCalled
    /\ sRes = NoResult

NoExport ==
    [ st |-> "none", err |-> "", doc |-> NoDoc, src |-> "",
      options |-> [flag |-> "", type |-> ""],
      from |-> Ed25519Keypair(<<>>, <<>>, NoDate) ]

NoImport ==
    [ st |-> "none", err |-> "", kp |-> Ed25519Keypair(<<>>, <<>>, NoDate),
      variant |-> "",
      options |-> [type |-> "", checkContext |-> FALSE, checkRevoked |-> FALSE] ]

ExportOptions == [flag : {PrivateKeyKind, PublicKeyKind, ""}, type : {"jwk", "multibase", "other"}]

ImportOptions ==
    [type : {"jwk", "multibase", "other"}, checkContext : BOOLEAN, checkRevoked : BOOLEAN]

\* the documents a caller imports: the exported one, or an edited copy of it
DocVariants == { "exported", "secretOnly", "noKeys" }

DocVariant(doc, variant) ==
    CASE variant = "exported" -> doc
      [] variant = "secretOnly" ->
            [doc EXCEPT !.publicKeyMultibase = <<>>, !.publicKeyJwk = NoJwk]
      [] OTHER ->
            [doc EXCEPT !.publicKeyMultibase = <<>>, !.publicKeyJwk = NoJwk,
                        !.secretKeyMultibase = <<>>, !.secretKeyJwk = NoJwk]

KpIdle ==
    /\ kCtor = [id |-> <<>>, controller |-> <<>>, revoked |-> NoDate]
    /\ kKp = Ed25519Keypair(<<>>, <<>>, NoDate)
    /\ kInits = 0
    /\ kDoc = NoExport
    /\ kImp = NoImport

KpInit ==
    /\ kCtor \in [id : {<<>>, GivenId}, controller : {<<>>, Controller}, revoked : RevokedDates]
    /\ kKp = Ed25519Keypair(kCtor.id, kCtor.controller, kCtor.revoked)
    /\ kInits = 0
    /\ kDoc = NoExport
    /\ kImp = NoImport
    /\ SigIdle
    /\ PlIdle
    /\ CcIdle
    /\ InIdle
    /\ CdIdle

\* await keypair.initialize()
KpInitialize ==
    /\ kInits < MaxPairs
    /\ kKp' = initialize(kKp, kInits + 1)
    /\ kInits' = kInits + 1
    /\ UNCHANGED <<kCtor, kDoc, kImp, sigVars, plVars, ccVars, inVars, cdVars>>

\* await keypair.export(options), on the constructed or on the imported keypair
KpExport(src, options) ==
    /\ src = "imported" => kImp.st = "returned"
    /\ LET kp == IF src = "imported" THEN kImp.kp ELSE kKp
           out == export(kp, options)
       IN kDoc' = [ st |-> out.st,
                    err |-> IF out.st = "raised" THEN out.val ELSE "",
                    doc |-> IF out.st = "raised" THEN NoDoc ELSE out.val,
                    src |-> src, options |-> options, from |-> kp ]
    /\ kImp' = NoImport
    /\ UNCHANGED <<kCtor, kKp, kInits, sigVars, plVars, ccVars, inVars, cdVars>>

\* await Ed25519Keypair.import(document, options); the caller imports each
\* exported document once
KpImport(variant, options) ==
    /\ kDoc.st = "returned"
    /\ kImp.st = "none"
    /\ LET out == import(DocVariant(kDoc.doc, variant), options)
       IN kImp' = [ st |-> out.st,
                    err |-> IF out.st = "raised" THEN out.val ELSE "",
                    kp |-> IF out.st = "raised" THEN NoImport.kp ELSE out.val,
                    variant |-> variant, options |-> options ]
    /\ UNCHANGED <<kCtor, kKp, kInits, kDoc, sigVars, plVars, ccVars, inVars, cdVars>>

KpNext ==
    \/ KpInitialize
    \/ \E src \in {"constructed", "imported"}, options \in ExportOptions : KpExport(src, options)
    \/ \E variant \in DocVariants, options \in ImportOptions : KpImport(variant, options)

KpSpec == KpInit /\ [][KpNext]_vars

\* the identifier derived from the public key a keypair holds
DerivedId(kp) == kp.controller \o <<"#">> \o generateFingerprint(kp).val

\* C7: for a keypair constructed with a controller and without an id, after
\* one or more completed initialize() calls the id equals
\* controller + "#" + fingerprint of the public key the keypair holds now.
C7_IdFollowsPublicKey ==
    (kCtor.controller # <<>> /\ kCtor.id = <<>> /\ kInits >= 1)
        => kKp.id = DerivedId(kKp)

\* C7: after the second initialize() the keypair holds the second pair while
\* its id still names the first pair's public key
C7_StaleId ==
    /\ kCtor.controller # <<>> /\ kCtor.id = <<>>
    /\ kInits = 2
    /\ kKp.publicKey = generateKeypair(2).publicKey
    /\ kKp.id = DerivedId([kKp EXCEPT !.publicKey = generateKeypair(1).publicKey])
    /\ kKp.id # DerivedId(kKp)

\* the last export was made from a keypair holding both halves, and its
\* document was imported as exported, with the export's type named in the
\* import options, unchecked context and no revocation in the way
RoundTripCase ==
    /\ kDoc.st = "returned"
    /\ HasKey(kDoc.from.privateKey) /\ HasKey(kDoc.from.publicKey)
    /\ kImp.st # "none"
    /\ kImp.variant = "exported"
    /\ kImp.options.type = kDoc.options.type
    /\ ~kImp.options.checkContext
    /\ ~(kImp.options.checkRevoked /\ kDoc.from.revoked # NoDate /\ kDoc.from.revoked < Now)

\* a signature made with the private key over every message verifies under
\* the public key
SignsFor(privateKey, publicKey) ==
    \A m \in Msgs :
        LET signature == SubtleSign(privateKey, m)
        IN /\ signature.st = "returned"
           /\ SubtleVerify(publicKey, signature.val, m) = Returned(TRUE)

\* C8: export then import, for both export types: the import of a document
\* exported with flag private returns a keypair with both halves whose
\* signatures verify under its own and under the original public key; the
\* import of a document exported with flag public (or no flag) returns a
\* keypair with the original public key and no private key.
C8_ExportImportRoundTrip ==
    RoundTripCase =>
        /\ kImp.st = "returned"
        /\ kDoc.options.flag = PrivateKeyKind =>
              /\ HasKey(kImp.kp.privateKey) /\ HasKey(kImp.kp.publicKey)
              /\ SignsFor(kImp.kp.privateKey, kImp.kp.publicKey)
              /\ SignsFor(kImp.kp.privateKey, kDoc.from.publicKey)
        /\ kDoc.options.flag # PrivateKeyKind =>
              /\ kImp.kp.publicKey = kDoc.from.publicKey
              /\ ~HasKey(kImp.kp.privateKey)

\* C8: a private multibase export of the re-initialized keypair was imported
C8_PrivateMultibaseImported ==
    /\ RoundTripCase
    /\ kDoc.options = [flag |-> PrivateKeyKind, type |-> "multibase"]
    /\ kInits = 2
    /\ kImp.kp.privateKey = generateKeypair(2).privateKey

\* C9: a document returned by export for flag private carries the public key
\* member next to the secret key member of its type; no returned document
\* carries a secret key without the matching public key, and the private
\* export of a keypair without a public key returns nothing.
C9_PrivateExportHasPublic ==
    /\ (kDoc.st = "returned" /\ kDoc.options.flag = PrivateKeyKind) =>
          IF kDoc.options.type = "multibase"
          THEN kDoc.doc.secretKeyMultibase # <<>> /\ kDoc.doc.publicKeyMultibase # <<>>
          ELSE HasJwk(kDoc.doc.secretKeyJwk) /\ HasJwk(kDoc.doc.publicKeyJwk)
    /\ kDoc.st = "returned" =>
          /\ kDoc.doc.secretKeyMultibase # <<>> =>
                kDoc.doc.publicKeyMultibase =
                    materialToMultibase(PublicOf(kDoc.from.privateKey.material), PublicKeyKind)
          /\ HasJwk(kDoc.doc.secretKeyJwk) =>
                /\ HasJwk(kDoc.doc.publicKeyJwk)
                /\ kDoc.doc.publicKeyJwk.x = kDoc.doc.secretKeyJwk.x
    /\ (kDoc.st # "none" /\ ~HasKey(kDoc.from.publicKey)) => kDoc.st = "raised"

\* C9: a keypair imported from a secret-only document, holding a private key
\* and no public key, was asked for a private export
C9_PrivateOnlyExportAttempted ==
    /\ kDoc.st # "none"
    /\ kDoc.src = "imported"
    /\ kDoc.options.flag = PrivateKeyKind
    /\ kDoc.options.type \in {"jwk", "multibase"}
    /\ HasKey(kDoc.from.privateKey) /\ ~HasKey(kDoc.from.publicKey)
    /\ kDoc.from.id # <<>> /\ kDoc.from.controller # <<>>

\* C10: a document returned by export for flag public, or with the flag
\* omitted, has no secretKeyMultibase, no secretKeyJwk and no d inside
\* publicKeyJwk, also when the keypair holds a private key.
C10_PublicExportHasNoSecret ==
    (kDoc.st = "returned" /\ kDoc.options.flag # PrivateKeyKind) =>
        /\ kDoc.doc.secretKeyMultibase = <<>>
        /\ ~HasJwk(kDoc.doc.secretKeyJwk)
        /\ kDoc.doc.publicKeyJwk.d = <<>>

\* C10: a keypair holding a private key returned a jwk document for an
\* omitted flag
C10_PublicJwkOfFullKeypair ==
    /\ kDoc.st = "returned"
    /\ kDoc.options = [flag |-> "", type |-> "jwk"]
    /\ HasKey(kDoc.from.privateKey)
    /\ HasJwk(kDoc.doc.publicKeyJwk)

\* the key half the flag of the last export names; an omitted flag names the
\* public half
NamedHalf ==
    IF kDoc.options.flag = PrivateKeyKind THEN kDoc.from.privateKey ELSE kDoc.from.publicKey

\* C11: export fails with a LogicError and returns no document whenever the
\* key half named by the flag is absent from the keypair, or its id is unset,
\* or its controller is unset.
C11_ExportLogicError ==
    (kDoc.st # "none" /\ (~HasKey(NamedHalf) \/ kDoc.from.id = <<>> \/ kDoc.from.controller = <<>>))
        => (kDoc.st = "raised" /\ kDoc.err = "LOGIC_ERROR" /\ kDoc.doc = NoDoc)

\* C11: an initialized keypair with an id and without a controller was asked
\* for a multibase export and the export raised
C11_NoControllerExportRaised ==
    /\ kDoc.st = "raised"
    /\ HasKey(kDoc.from.privateKey) /\ HasKey(kDoc.from.publicKey)
    /\ kDoc.from.id # <<>> /\ kDoc.from.controller = <<>>
    /\ kDoc.options.type = "multibase"

\* the document handed to the last import
ImportedDocument == DocVariant(kDoc.doc, kImp.variant)

\* the last import asked for the revocation check of a document whose revoked
\* timestamp lies before the current time
RevokedInPast ==
    /\ kImp.options.checkRevoked
    /\ ImportedDocument.revoked # NoTimestamp
    /\ DateOf(ImportedDocument.revoked) < Now

C13_ImportedHoldsPublic ==
    kImp.st = "returned" => HasKey(kImp.kp.publicKey)

\* C13: the import of a document carrying only its secret key member returned
\* a keypair with a private key and no public key
C13_PrivateOnlyImported ==
    /\ kImp.st = "returned"
    /\ kImp.variant = "secretOnly"
    /\ HasKey(kImp.kp.privateKey) /\ ~HasKey(kImp.kp.publicKey)

\* the decode path the type declared by the imported document names
DeclaredPath ==
    LET revoked == IF ImportedDocument.revoked # NoTimestamp
                   THEN DateOf(ImportedDocument.revoked) ELSE NoDate
    IN IF ImportedDocument.type = TYPE_JWK
       THEN fromJwk(ImportedDocument, revoked)
       ELSE fromMultibase(ImportedDocument, revoked)

\* C14: an import that passes the context, type and revocation checks ends
\* as the decode path of the document's declared type ends, whatever the
\* import options name: the JWK members for a JsonWebKey2020 document, the
\* multibase members for an Ed25519VerificationKey2020 document.
C14_PathFollowsDeclaredType ==
    (kImp.st # "none" /\ ~kImp.options.checkContext /\ ~RevokedInPast) =>
        /\ kImp.st = DeclaredPath.st
        /\ kImp.st = "returned" => kImp.kp = DeclaredPath.val

\* C14: a document exported as JSON Web Key was imported with the options
\* naming multibase, and the import raised a decoding error
C14_JwkDocumentDecodedAsMultibase ==
    /\ kImp.st = "raised" /\ kImp.err = "DECODING_ERROR"
    /\ kImp.variant = "exported"
    /\ ImportedDocument.type = TYPE_JWK
    /\ HasJwk(ImportedDocument.publicKeyJwk)
    /\ kImp.options.type = "multibase"

(***************************************************************************)
(* Proof pipelines: a caller holds a document and proof options, creates   *)
(* a proof, attaches it, alters the secured document and verifies it.      *)
(***************************************************************************)
Credentials == { Credential(c, claims) : c \in Contexts, claims \in {"alumni", "degree"} }

ProofOptions ==
    { Proof(type, cryptosuite, created, method) :
        type \in {GENERAL_PROOF_TYPE, "Ed25519Signature2020"},
        cryptosuite \in {SUITE_RDFC, SUITE_JCS},
        created \in CreatedValues,
        method \in MethodIds }

\* the characters a caller writes over one character of proofValue
TamperChars == { "z", "1", "0" }

\* the members of the attached proof a caller alters
Edits == { "proofValue", "type", "created", "verificationMethod" }

\* the ways a caller alters the @context of the secured document
ContextEdits == { "noContext", "shortContext", "otherContext", "longContext" }

EditContext(context, edit) ==
    CASE edit = "noContext" -> NoContext
      [] edit = "shortContext" -> ContextArray(SubSeq(context.items, 1, Len(context.items) - 1))
      [] edit = "otherContext" ->
            [context EXCEPT !.items = <<"examples/v2">> \o Tail(context.items)]
      [] OTHER -> ContextArray(context.items \o <<"examples/v2">>)

EditProof(proof, edit) ==
    CASE edit = "proofValue" -> deleteProofValue(proof)
      [] edit = "type" -> [proof EXCEPT !.type = "Ed25519Signature2020"]
      [] edit = "created" -> [proof EXCEPT !.created = "yesterday"]
      [] OTHER -> [proof EXCEPT !.verificationMethod = "did:1#unknown"]

\* the objects of a finished invocation are dropped
Collect(h) == [EmptyHeap EXCEPT !.doc = h.doc, !.opts = h.opts]

Outcome(op, suite, st, err) ==
    [NoOutcome EXCEPT !.op = op, !.suite = suite, !.st = st, !.err = err]

PlInit ==
    /\ pHeap \in { [EmptyHeap EXCEPT !.doc = d, !.opts = o] : d \in Credentials, o \in ProofOptions }
    /\ pInv = NoInvocation
    /\ pOut = NoOutcome
    /\ pOrig = [doc |-> pHeap.doc, opts |-> pHeap.opts]
    /\ pProv = NoProvenance
    /\ SigIdle
    /\ KpIdle
    /\ CcIdle
    /\ InIdle
    /\ CdIdle

\* the invocation starts: it goes on to its first stage or ends at once
Enter(op, suite, entry) ==
    /\ pOrig' = [doc |-> pHeap.doc, opts |-> pHeap.opts]
    /\ IF entry.st = "continue"
       THEN /\ pHeap' = entry.h
            /\ pInv' = entry.frame
            /\ pOut' = NoOutcome
       ELSE /\ pHeap' = Collect(entry.h)
            /\ pInv' = NoInvocation
            /\ pOut' = Outcome(op, suite, entry.st, entry.err)
    /\ UNCHANGED <<pProv, sigVars, kpVars, ccVars, inVars, cdVars>>

\* the invocation ends with a raised error
Raise(h, error) ==
    /\ pHeap' = Collect(h)
    /\ pInv' = NoInvocation
    /\ pOut' = Outcome(pInv.op, pInv.suite, "raised", error)
    /\ UNCHANGED <<pOrig, pProv, sigVars, kpVars, ccVars, inVars, cdVars>>

\* the invocation moves to its next stage
Advance(h, frame, pc) ==
    /\ pHeap' = h
    /\ pInv' = [frame EXCEPT !.pc = pc]
    /\ UNCHANGED <<pOut, pOrig, pProv, sigVars, kpVars, ccVars, inVars, cdVars>>

\* proof = await EddsaRdfc2022.createProof(document, {proof: options, documentLoader})
PlCreateRdfc ==
    /\ pInv.op = "none" /\ ~pHeap.doc.proof.defined
    /\ Enter("createProof", SUITE_RDFC, RdfcCreateEntry(pHeap))

\* proof = await EddsaJcs2022.createProof(document, {proof: options, documentLoader})
PlCreateJcs ==
    /\ pInv.op = "none" /\ ~pHeap.doc.proof.defined
    /\ Enter("createProof", SUITE_JCS, JcsCreateEntry(pHeap))

\* result = await EddsaRdfc2022.verifyProof(document, {documentLoader})
PlVerifyRdfc ==
    /\ pInv.op = "none"
    /\ Enter("verifyProof", SUITE_RDFC, RdfcVerifyEntry(pHeap))

\* result = await EddsaJcs2022.verifyProof(document, {documentLoader})
PlVerifyJcs ==
    /\ pInv.op = "none"
    /\ Enter("verifyProof", SUITE_JCS, JcsVerifyEntry(pHeap))

\* the configure stage
PlConfigure ==
    /\ pInv.pc = "configure"
    /\ LET r == IF pInv.suite = SUITE_RDFC
                THEN configRDFC(pHeap, pInv.document, pInv.configOf)
                ELSE configJCS(pHeap, pInv.configOf)
       IN IF r.st = "raised" THEN Raise(r.h, r.err)
          ELSE Advance(r.h, [pInv EXCEPT !.canonicalProofConfig = r.val],
                       IF pInv.op = "createProof" THEN "transform" ELSE "hash")

\* the transform stage
PlTransform ==
    /\ pInv.pc = "transform"
    /\ LET r == IF pInv.suite = SUITE_RDFC
                THEN transformRDFC(pHeap, pInv.document, pInv.options)
                ELSE transformJCS(pHeap, pInv.document, pInv.options)
       IN IF r.st = "raised" THEN Raise(r.h, r.err)
          ELSE Advance(r.h, [pInv EXCEPT !.canonicalDocument = r.val],
                       IF pInv.op = "createProof" THEN "hash" ELSE "configure")

\* the hash stage
PlHash ==
    /\ pInv.pc = "hash"
    /\ Advance(pHeap,
               [pInv EXCEPT !.hashData = hash(pInv.canonicalDocument, pInv.canonicalProofConfig)],
               IF pInv.op = "createProof" THEN "serialize" ELSE "verify")

\* the serialize stage and the return of createProof
PlSerialize ==
    /\ pInv.pc = "serialize"
    /\ \E proofBytes \in { serialize(pInv.hashData, ReadProof(pHeap, pInv.options)) } :
          IF proofBytes.st = "raised" THEN Raise(pHeap, proofBytes.val)
          ELSE \E h \in { WriteProof(pHeap, pInv.result,
                               [ ReadProof(pHeap, pInv.result) EXCEPT
                                   !.hasProofValue = TRUE,
                                   !.proofValue = base58btc_encode(proofBytes.val) ]) } :
                  /\ pHeap' = Collect(h)
                  /\ pInv' = NoInvocation
                  /\ pOut' = [ Outcome("createProof", pInv.suite, "returned", "") EXCEPT
                                 !.proof = ReadProof(h, pInv.result) ]
                  /\ UNCHANGED <<pOrig, pProv, sigVars, kpVars, ccVars, inVars, cdVars>>

\* the verify stage and the return of verifyProof
PlVerify ==
    /\ pInv.pc = "verify"
    /\ \E verified \in { verifyProofBytes(pInv.hashData, pInv.proofBytes,
                                            ReadProof(pHeap, pInv.options)) } :
          IF verified.st = "raised" THEN Raise(pHeap, verified.val)
          ELSE /\ pHeap' = Collect(pHeap)
               /\ pInv' = NoInvocation
               /\ pOut' = [ Outcome("verifyProof", pInv.suite, "returned", "") EXCEPT
                              !.verified = verified.val,
                              !.verifiedDocument =
                                  IF verified.val THEN pHeap[pInv.document] ELSE NoCredential ]
               /\ UNCHANGED <<pOrig, pProv, sigVars, kpVars, ccVars, inVars, cdVars>>

\* securedCredential = unsecuredCredential; securedCredential.proof = proof
PlAttach ==
    /\ pInv.op = "none"
    /\ pOut.op = "createProof" /\ pOut.st = "returned"
    /\ pHeap' = [pHeap EXCEPT !.doc.proof = pOut.proof]
    /\ pProv' = [state |-> "attached", suite |-> pOut.suite, unsecured |-> pHeap.doc]
    /\ pOut' = NoOutcome
    /\ pOrig' = [doc |-> pHeap'.doc, opts |-> pHeap.opts]
    /\ UNCHANGED <<pInv, sigVars, kpVars, ccVars, inVars, cdVars>>

\* the caller replaces the character at one position of proof.proofValue
PlTamper(position, char) ==
    /\ pInv.op = "none"
    /\ pProv.state = "attached"
    /\ position \in 1..Len(pHeap.doc.proof.proofValue)
    /\ pHeap.doc.proof.proofValue[position] # char
    /\ pHeap' = [pHeap EXCEPT !.doc.proof.proofValue[position] = char]
    /\ pProv' = [pProv EXCEPT !.state = "tampered"]
    /\ pOut' = NoOutcome
    /\ pOrig' = [doc |-> pHeap'.doc, opts |-> pHeap.opts]
    /\ UNCHANGED <<pInv, sigVars, kpVars, ccVars, inVars, cdVars>>

\* the caller alters one member of the attached proof
PlEdit(edit) ==
    /\ pInv.op = "none"
    /\ pProv.state = "attached"
    /\ pHeap' = [pHeap EXCEPT !.doc.proof = EditProof(pHeap.doc.proof, edit)]
    /\ pProv' = [pProv EXCEPT !.state = "edited"]
    /\ pOut' = NoOutcome
    /\ pOrig' = [doc |-> pHeap'.doc, opts |-> pHeap.opts]
    /\ UNCHANGED <<pInv, sigVars, kpVars, ccVars, inVars, cdVars>>

\* the caller alters the @context of the secured document
PlEditContext(edit) ==
    /\ pInv.op = "none"
    /\ pProv.state = "attached"
    /\ ContextTruthy(pHeap.doc.context)
    /\ pHeap' = [pHeap EXCEPT !.doc.context = EditContext(pHeap.doc.context, edit)]
    /\ pProv' = [pProv EXCEPT !.state = "edited"]
    /\ pOut' = NoOutcome
    /\ pOrig' = [doc |-> pHeap'.doc, opts |-> pHeap.opts]
    /\ UNCHANGED <<pInv, sigVars, kpVars, ccVars, inVars, cdVars>>

\* the longest proofValue: the marker and the base-58 digits of a signature
MaxProofValueLen == 1 + 2 * (KeyLen + 2 * HashLen)

PlNext ==
    \/ PlCreateRdfc
    \/ PlCreateJcs
    \/ PlVerifyRdfc
    \/ PlVerifyJcs
    \/ PlConfigure
    \/ PlTransform
    \/ PlHash
    \/ PlSerialize
    \/ PlVerify
    \/ PlAttach
    \/ \E position \in 1..MaxProofValueLen, char \in TamperChars : PlTamper(position, char)
    \/ \E edit \in Edits : PlEdit(edit)
    \/ \E edit \in ContextEdits : PlEditContext(edit)

PlSpec == PlInit /\ [][PlNext]_vars

\* the last invocation was verifyProof of the given suite on the document that
\* carries, unaltered, the proof createProof of that suite returned for it,
\* the verification method resolving to a keypair with both halves
VerifiedAsCreated(suite) ==
    /\ pOut.op = "verifyProof" /\ pOut.suite = suite
    /\ pProv.state = "attached" /\ pProv.suite = suite
    /\ pHeap.opts.verificationMethod = "did:1#full"

\* C1: for an unsecured document and valid eddsa-rdfc-2022 proof options
\* whose verification method resolves to a keypair with both halves,
\* verifyProof of the document with the created proof attached returns
\* verified = true and verifiedDocument equal to the unsecured document.
C1_RdfcCreateVerify ==
    VerifiedAsCreated(SUITE_RDFC) =>
        /\ pOut.st = "returned"
        /\ pOut.verified
        /\ pOut.verifiedDocument = pProv.unsecured

\* C1: a document with an array @context and a created timestamp was secured
\* and verified with eddsa-rdfc-2022
C1_RdfcVerifiedArrayContext ==
    /\ VerifiedAsCreated(SUITE_RDFC)
    /\ pOut.verified
    /\ pHeap.doc.context = ContextArray(<<"credentials/v2", "examples/v2">>)
    /\ pHeap.doc.proof.created = "2025-01-17T16:09:46Z"
    /\ pHeap.doc.proof.hasProofValue

\* C2: for an unsecured document whose @context is an array, a single string
\* or absent, and valid eddsa-jcs-2022 proof options, verifyProof of the
\* document with the created proof attached returns verified = true.
C2_JcsCreateVerify ==
    VerifiedAsCreated(SUITE_JCS) => (pOut.st = "returned" /\ pOut.verified)

\* C2: a document whose @context is a single string was secured with
\* eddsa-jcs-2022 and its verification returned verified = false
C2_JcsStringContextRejected ==
    /\ VerifiedAsCreated(SUITE_JCS)
    /\ pHeap.doc.context = ContextString("credentials/v2")
    /\ pOut.st = "returned" /\ ~pOut.verified

\* the last invocation was verifyProof on a secured document one character of
\* whose proofValue was replaced
VerifiedTampered ==
    /\ pOut.op = "verifyProof" /\ pOut.suite = pProv.suite
    /\ pProv.state = "tampered"

\* C4: after one character of proof.proofValue of a secured document is
\* replaced by a different one, at any position, verifyProof returns a result
\* with verified = false and does not raise.
C4_TamperedReturnsUnverified ==
    VerifiedTampered => (pOut.st = "returned" /\ ~pOut.verified)

\* C4: the multibase marker was replaced and verifyProof raised
C4_MarkerReplacedRaised ==
    /\ VerifiedTampered
    /\ pHeap.doc.proof.proofValue[1] # BASE_58_BTC
    /\ pOut.st = "raised" /\ pOut.err = "DECODING_ERROR"

\* C5: verifyProof of either suite never raises; a secured document without
\* proof or proofValue, with a foreign type or cryptosuite, an invalid
\* created or an unusable verification method ends in a returned result
\* with verified = false.
C5_VerifyProofNeverRaises ==
    pOut.op = "verifyProof" =>
        /\ pOut.st = "returned"
        /\ pProv.state \in {"none", "edited"} => ~pOut.verified

\* C5: verifyProof of a document without a proof raised a TypeError
C5_NoProofRaised ==
    /\ pOut.op = "verifyProof"
    /\ ~pHeap.doc.proof.defined
    /\ pOut.st = "raised" /\ pOut.err = "TypeError"

\* C6: when createProof or verifyProof has ended, returned or raised, the
\* caller's document and proof options equal their values before the call.
C6_CallerObjectsUnchanged ==
    pOut.op # "none" => (pHeap.doc = pOrig.doc /\ pHeap.opts = pOrig.opts)

\* C6: createProof of eddsa-jcs-2022 returned a proof with @context and
\* proofValue, and verifyProof dropped proofValue from its own copy
C6_ProofMadeAndProofValueDropped ==
    \/ /\ pOut.op = "createProof" /\ pOut.suite = SUITE_JCS /\ pOut.st = "returned"
       /\ pOut.proof.hasProofValue /\ ContextTruthy(pOut.proof.context)
       /\ ~pHeap.opts.hasProofValue /\ ~ContextTruthy(pHeap.opts.context)
    \/ /\ pOut.op = "verifyProof" /\ pOut.st = "returned" /\ pOut.verified
       /\ pHeap.doc.proof.hasProofValue
       /\ ~pOut.verifiedDocument.proof.defined

\* the canonical proof configuration and the canonical document of the
\* running invocation, from the objects it holds
ConfigurationOf(h, frame) ==
    IF frame.suite = SUITE_RDFC THEN RdfcProof(h.config) ELSE JcsProof(h.config)
DocumentOf(h, frame) ==
    IF frame.suite = SUITE_RDFC THEN RdfcCredential(h[frame.document])
    ELSE JcsCredential(h[frame.document])

\* C19: in every createProof and verifyProof invocation of both suites, the
\* bytes handed to serialize or verify are the SHA-256 digest of the
\* canonical proof configuration followed by the SHA-256 digest of the
\* canonical document, each of the digest's length.
C19_ConfigHashThenDocumentHash ==
    pInv.pc \in {"serialize", "verify"} =>
        /\ pInv.hashData = sha256(ConfigurationOf(pHeap, pInv)) \o sha256(DocumentOf(pHeap, pInv))
        /\ Len(pInv.hashData) = 2 * HashLen

\* C19: a verifyProof of eddsa-jcs-2022 has hashed a configuration and a
\* document whose digests differ
C19_JcsVerifyHashed ==
    /\ pInv.op = "verifyProof" /\ pInv.suite = SUITE_JCS /\ pInv.pc = "verify"
    /\ sha256(pInv.canonicalProofConfig) # sha256(pInv.canonicalDocument)
    /\ pInv.canonicalProofConfig = ConfigurationOf(pHeap, pInv)

\* the proof of the document carries an @context, and the @context of the
\* document is missing, shorter, or differs from it at an index
ContextMismatch(document) ==
    /\ document.proof.defined /\ ContextTruthy(document.proof.context)
    /\ \/ ~ContextTruthy(document.context)
       \/ Len(document.context.items) < Len(document.proof.context.items)
       \/ \E index \in 1..Len(document.proof.context.items) :
              document.context.items[index] # document.proof.context.items[index]

\* the proofValue of the document's proof is there and decodes
ProofValueDecodes(document) ==
    /\ document.proof.hasProofValue
    /\ base58btc_decode(document.proof.proofValue).st = "returned"

ValidTimestamp(created) ==
    created \in {"1970-01-01T00:00:00Z", "2025-01-17T16:09:46Z"}

\* the running invocation has completed its configure stage
ConfigureDone ==
    /\ pInv.op # "none"
    /\ pInv.pc \in ( IF pInv.op = "createProof" THEN {"transform", "hash", "serialize"}
                      ELSE {"hash", "verify"} )

\* the proof an ended invocation worked on
EndedProof == IF pOut.op = "createProof" THEN pHeap.opts ELSE pHeap.doc.proof

\* C23: no invocation of either suite gets past its configure stage with
\* proof options whose created is present and is not a valid timestamp,
\* the empty string included: configure ends it with PROOF_GENERATION_ERROR.
C23_InvalidCreatedRejected ==
    ConfigureDone =>
        \/ ReadProof(pHeap, pInv.configOf).created = NoCreated
        \/ ValidTimestamp(ReadProof(pHeap, pInv.configOf).created)

\* C23: an invocation has completed configure with created the empty string
C23_EmptyCreatedConfigured ==
    /\ ConfigureDone
    /\ ReadProof(pHeap, pInv.configOf).created = ""
    /\ pInv.canonicalProofConfig # <<>>

\* C24: no invocation of either suite whose proof has the type and the
\* cryptosuite of the suite and a created that is a valid timestamp,
\* 1970-01-01T00:00:00Z included, is ended by the error of the configure
\* stage.
C24_ValidCreatedAccepted ==
    ( /\ pOut.st = "raised" /\ pOut.err = "PROOF_GENERATION_ERROR"
      /\ EndedProof.type = GENERAL_PROOF_TYPE
      /\ EndedProof.cryptosuite = pOut.suite )
    => ~ValidTimestamp(EndedProof.created)

\* C24: createProof was ended by the configure stage for proof options of
\* the suite whose created is 1970-01-01T00:00:00Z
C24_EpochCreatedRejected ==
    /\ pOut.op = "createProof" /\ pOut.st = "raised"
    /\ pOut.err = "PROOF_GENERATION_ERROR"
    /\ pHeap.opts.type = GENERAL_PROOF_TYPE /\ pHeap.opts.cryptosuite = pOut.suite
    /\ pHeap.opts.created = "1970-01-01T00:00:00Z"

\* the length of a signature of the platform: 64 bytes, scaled
SignatureLen == KeyLen + 2 * HashLen

\* C21: createProof never returns a partial proof: an invocation in which a
\* stage fails ends with a raised error and returns no proof, and every
\* proof that createProof returns carries a proofValue that is the marker z
\* followed by the base58-btc encoding of a signature of full length.
C21_NoPartialProof ==
    pOut.op = "createProof" =>
        \/ /\ pOut.st = "raised"
           /\ pOut.proof = NoProof
        \/ /\ pOut.st = "returned"
           /\ pOut.proof.defined /\ pOut.proof.hasProofValue
           /\ pOut.proof.proofValue[1] = BASE_58_BTC
           /\ decodeBase58(Tail(pOut.proof.proofValue)).st = "returned"
           /\ Len(decodeBase58(Tail(pOut.proof.proofValue)).val) = SignatureLen
           /\ pOut.proof.proofValue =
                  <<BASE_58_BTC>> \o
                      encodeBase58(decodeBase58(Tail(pOut.proof.proofValue)).val)

\* C21: a createProof of eddsa-jcs-2022 returned a proof with a proofValue
C21_JcsProofReturned ==
    /\ pOut.op = "createProof" /\ pOut.suite = SUITE_JCS /\ pOut.st = "returned"
    /\ Len(pOut.proof.proofValue) > 1
    /\ pHeap.opts.verificationMethod = "did:1#secret"

\* the stage that follows the stage pc ("" before the first one) on the two
\* paths, and the stage that follows it when configure always comes first
StageAfter(op, pc) ==
    CASE pc = "" -> IF op = "createProof" THEN "configure" ELSE "transform"
      [] pc = "configure" -> IF op = "createProof" THEN "transform" ELSE "hash"
      [] pc = "transform" -> IF op = "createProof" THEN "hash" ELSE "configure"
      [] pc = "hash" -> IF op = "createProof" THEN "serialize" ELSE "verify"
      [] OTHER -> ""
ConfigureFirstStageAfter(op, pc) ==
    CASE pc = "" -> "configure"
      [] pc = "configure" -> "transform"
      [] pc = "transform" -> "hash"
      [] pc = "hash" -> IF op = "createProof" THEN "serialize" ELSE "verify"
      [] OTHER -> ""

\* the proof the running invocation works on names another type or suite
Mismatch ==
    \/ ReadProof(pHeap, pInv.options).type # GENERAL_PROOF_TYPE
    \/ ReadProof(pHeap, pInv.options).cryptosuite # pInv.suite

\* steps of an invocation: it starts, goes from a stage to the next, returns
\* from its stage, or is ended by the error its stage raises
Starts == pInv.op = "none" /\ pInv'.op # "none"
Proceeds == pInv.op # "none" /\ pInv'.op # "none" /\ pInv' # pInv
Returns == pInv.op # "none" /\ pInv'.op = "none" /\ pOut'.st = "returned"
StageRaises == pInv.op # "none" /\ pInv'.op = "none" /\ pOut'.st = "raised"

\* C20: every invocation runs its stages in a fixed order and none twice:
\* createProof runs configure, transform, hash, serialize, and verifyProof
\* runs transform, configure, hash, verify; an invocation returns from its
\* last stage only; and when the type or the cryptosuite of the proof does
\* not match the suite, createProof ends with the error of its configure
\* stage and verifyProof with the error of its transform stage.
C20_StagesInPathOrder ==
    [][ /\ Starts => pInv'.pc = StageAfter(pInv'.op, "")
        /\ Proceeds => pInv'.pc = StageAfter(pInv.op, pInv.pc)
        /\ Returns => StageAfter(pInv.op, pInv.pc) = ""
        /\ (StageRaises /\ Mismatch) =>
               pOut'.err = IF pInv.op = "createProof" THEN "PROOF_GENERATION_ERROR"
                           ELSE "PROOF_TRANSFORMATION_ERROR" ]_vars

\* C20 as stated: on both paths the stages run in the order configure,
\* transform, hash, then serialize or verify, and a proof whose type or
\* cryptosuite does not match the suite ends the invocation with the error
\* of the configure stage.
C20_ConfigureBeforeTransform ==
    [][ /\ Starts => pInv'.pc = ConfigureFirstStageAfter(pInv'.op, "")
        /\ Proceeds => pInv'.pc = ConfigureFirstStageAfter(pInv.op, pInv.pc)
        /\ Returns => ConfigureFirstStageAfter(pInv.op, pInv.pc) = ""
        /\ (StageRaises /\ Mismatch) => pOut'.err = "PROOF_GENERATION_ERROR" ]_vars

\* C20: verifyProof of a secured document whose proof names another type
\* was ended by the error of the transform stage
C20_VerifyEndedByTransformError ==
    /\ pOut.op = "verifyProof" /\ pOut.st = "raised"
    /\ pOut.err = "PROOF_TRANSFORMATION_ERROR"
    /\ pProv.state = "edited"
    /\ pHeap.doc.proof.type # GENERAL_PROOF_TYPE
    /\ pHeap.doc.proof.hasProofValue

(***************************************************************************)
(* Concurrent pipelines: two invocations are given the same document       *)
(* object and the same proof options object; each runs from one await to   *)
(* the next, in any interleaving with the other.                           *)
(***************************************************************************)
\* the heap invocation i works on: the caller's objects and its own
HeapOf(i) ==
    [ doc |-> cHeap.doc, opts |-> cHeap.opts, unsecured |-> cHeap.own[i].unsecured,
      proof |-> cHeap.own[i].proof, config |-> cHeap.own[i].config ]

\* a heap that holds the caller's objects only
CallerHeap == [EmptyHeap EXCEPT !.doc = cHeap.doc, !.opts = cHeap.opts]

\* the objects after a step of invocation i; those of an ended one are dropped
Stored(i, step) ==
    [ doc |-> step.h.doc, opts |-> step.h.opts,
      own |-> [ cHeap.own EXCEPT ![i] =
                  IF step.st = "ended" THEN NoLocals
                  ELSE [ unsecured |-> step.h.unsecured, proof |-> step.h.proof,
                         config |-> step.h.config ] ] ]

\* createProof and verifyProof of a suite, up to the first await
Entry(op, suite, h) ==
    CASE op = "createProof" /\ suite = SUITE_RDFC -> RdfcCreateEntry(h)
      [] op = "createProof" /\ suite = SUITE_JCS -> JcsCreateEntry(h)
      [] op = "verifyProof" /\ suite = SUITE_RDFC -> RdfcVerifyEntry(h)
      [] OTHER -> JcsVerifyEntry(h)

FromEntry(op, suite, entry) ==
    IF entry.st = "continue" THEN Running(entry.h, entry.frame)
    ELSE Ended(entry.h, Outcome(op, suite, entry.st, entry.err))

\* the invocation after its configure stage
AfterConfigure(frame, r) ==
    IF r.st = "raised" THEN Ended(r.h, Outcome(frame.op, frame.suite, "raised", r.err))
    ELSE Running(r.h, [ frame EXCEPT !.canonicalProofConfig = r.val,
                          !.pc = IF frame.op = "createProof" THEN "transform" ELSE "hash" ])

\* the invocation after its transform stage
AfterTransform(frame, r) ==
    IF r.st = "raised" THEN Ended(r.h, Outcome(frame.op, frame.suite, "raised", r.err))
    ELSE Running(r.h, [ frame EXCEPT !.canonicalDocument = r.val,
                          !.pc = IF frame.op = "createProof" THEN "hash" ELSE "configure" ])

\* createProof after serialize: proof.proofValue is set and proof returned
AfterSerialize(h, frame, proofBytes) ==
    IF proofBytes.st = "raised"
    THEN Ended(h, Outcome(frame.op, frame.suite, "raised", proofBytes.val))
    ELSE Ended(WriteProof(h, frame.result,
                   [ ReadProof(h, frame.result) EXCEPT
                       !.hasProofValue = TRUE,
                       !.proofValue = base58btc_encode(proofBytes.val) ]),
               [ Outcome(frame.op, frame.suite, "returned", "") EXCEPT
                   !.proof = [ ReadProof(h, frame.result) EXCEPT
                                 !.hasProofValue = TRUE,
                                 !.proofValue = base58btc_encode(proofBytes.val) ] ])

\* verifyProof after verify: the verification result is returned
AfterVerify(h, frame, verified) ==
    IF verified.st = "raised"
    THEN Ended(h, Outcome(frame.op, frame.suite, "raised", verified.val))
    ELSE Ended(h, [ Outcome(frame.op, frame.suite, "returned", "") EXCEPT
                      !.verified = verified.val,
                      !.verifiedDocument =
                          IF verified.val THEN h[frame.document] ELSE NoCredential ])

\* the stage an invocation is at, run on the heap h
RunStage(h, frame) ==
    CASE frame.pc = "configure" ->
            AfterConfigure(frame,
                IF frame.suite = SUITE_RDFC
                THEN configRDFC(h, frame.document, frame.configOf)
                ELSE configJCS(h, frame.configOf))
      [] frame.pc = "transform" ->
            AfterTransform(frame,
                IF frame.suite = SUITE_RDFC
                THEN transformRDFC(h, frame.document, frame.options)
                ELSE transformJCS(h, frame.document, frame.options))
      [] frame.pc = "hash" ->
            Running(h, [ frame EXCEPT
                           !.hashData = hash(frame.canonicalDocument,
                                             frame.canonicalProofConfig),
                           !.pc = IF frame.op = "createProof" THEN "serialize"
                                  ELSE "verify" ])
      [] frame.pc = "serialize" ->
            AfterSerialize(h, frame, serialize(frame.hashData, ReadProof(h, frame.options)))
      [] OTHER ->
            AfterVerify(h, frame,
                verifyProofBytes(frame.hashData, frame.proofBytes,
                                 ReadProof(h, frame.options)))

\* another invocation than i is running
Overlaps(i) == \E j \in Slots \ {i} : cInv[j].op # "none"

CcInit ==
    /\ cHeap \in { [ doc |-> d, opts |-> o, own |-> [i \in Slots |-> NoLocals] ] :
                     d \in Credentials, o \in ProofOptions }
    /\ cInv = [i \in Slots |-> NoInvocation]
    /\ cOut = [i \in Slots |-> NoOutcome]
    /\ cAlone = [i \in Slots |-> NoAlone]
    /\ SigIdle
    /\ KpIdle
    /\ PlIdle
    /\ InIdle
    /\ CdIdle

\* Suite.createProof(document, {proof: options, documentLoader}) or
\* Suite.verifyProof(document, {documentLoader}) is called, and runs to its
\* first await
CcCall(i, op, suite) ==
    /\ cInv[i].op = "none" /\ cOut[i].op = "none"
    /\ \E started \in { FromEntry(op, suite, Entry(op, suite, HeapOf(i))) },
          alone \in { FromEntry(op, suite, Entry(op, suite, CallerHeap)) } :
          /\ cHeap' = Stored(i, started)
          /\ cInv' = [cInv EXCEPT ![i] = started.frame]
          /\ cOut' = [cOut EXCEPT ![i] = started.out]
          /\ cAlone' = [ cAlone EXCEPT ![i] =
                           [ run |-> alone,
                             args |-> [doc |-> cHeap.doc, opts |-> cHeap.opts],
                             overlapped |-> Overlaps(i) ] ]
    /\ UNCHANGED <<sigVars, kpVars, plVars, inVars, cdVars>>

\* invocation i runs from one await to the next, or to its end
CcStep(i) ==
    /\ cInv[i].op # "none"
    /\ \E next \in { RunStage(HeapOf(i), cInv[i]) },
          alone \in { IF cAlone[i].run.st = "running"
                      THEN RunStage(cAlone[i].run.h, cAlone[i].run.frame)
                      ELSE cAlone[i].run } :
          /\ cHeap' = Stored(i, next)
          /\ cInv' = [cInv EXCEPT ![i] = next.frame]
          /\ cOut' = [cOut EXCEPT ![i] = next.out]
          /\ cAlone' = [ cAlone EXCEPT ![i].run = alone,
                                       ![i].overlapped = @ \/ Overlaps(i) ]
    /\ UNCHANGED <<sigVars, kpVars, plVars, inVars, cdVars>>

\* securedCredential.proof = proof, once no invocation is running; the
\* caller then calls the suites on the secured document
CcAttach(i) ==
    /\ \A j \in Slots : cInv[j].op = "none"
    /\ cOut[i].op = "createProof" /\ cOut[i].st = "returned"
    /\ ~cHeap.doc.proof.defined
    /\ cHeap' = [cHeap EXCEPT !.doc.proof = cOut[i].proof]
    /\ cOut' = [j \in Slots |-> NoOutcome]
    /\ cAlone' = [j \in Slots |-> NoAlone]
    /\ UNCHANGED <<cInv, sigVars, kpVars, plVars, inVars, cdVars>>

CcNext ==
    \/ \E i \in Slots, op \in {"createProof", "verifyProof"}, suite \in {SUITE_RDFC, SUITE_JCS} :
          CcCall(i, op, suite)
    \/ \E i \in Slots : CcStep(i)
    \/ \E i \in Slots : CcAttach(i)

CcSpec == CcInit /\ [][CcNext]_vars

\* invocation i has ended after running while another one was running
EndedOverlapped(i) == cOut[i].op # "none" /\ cAlone[i].overlapped

\* C17: two createProof invocations of the same suite that were called with
\* an identical document and identical proof options (created included, the
\* keypair behind the verification method being the same) and that both
\* returned a proof, returned proofs with the same proofValue.
C17_CreateProofDeterministic ==
    \A i, j \in Slots :
        ( /\ cOut[i].op = "createProof" /\ cOut[j].op = "createProof"
          /\ cOut[i].suite = cOut[j].suite
          /\ cAlone[i].args = cAlone[j].args
          /\ cOut[i].st = "returned" /\ cOut[j].st = "returned" )
        => /\ cOut[i].proof.hasProofValue
           /\ cOut[i].proof.proofValue = cOut[j].proof.proofValue

\* C17: two eddsa-rdfc-2022 createProof invocations with the same arguments
\* both returned a proof
C17_TwoProofsReturned ==
    /\ \A i \in Slots :
          /\ cOut[i].op = "createProof" /\ cOut[i].suite = SUITE_RDFC
          /\ cOut[i].st = "returned"
          /\ Len(cOut[i].proof.proofValue) > 1
    /\ cAlone[1].args = cAlone[2].args
    /\ cAlone[1].args.opts.created = "2025-01-17T16:09:46Z"

\* C18: an invocation whose steps interleave with those of another one,
\* both given the same document object and the same proof options object,
\* ends with the result it has when it runs alone on its arguments.
C18_SameResultAsAlone ==
    \A i \in Slots :
        cOut[i].op # "none" =>
            /\ cAlone[i].run.st = "ended"
            /\ cOut[i] = cAlone[i].run.out

\* C18: a createProof and a verifyProof on the same secured document, each
\* of which ran while the other was running, have both returned
C18_CreateAndVerifyInterleaved ==
    /\ EndedOverlapped(1) /\ EndedOverlapped(2)
    /\ cOut[1].op = "createProof" /\ cOut[1].st = "returned"
    /\ cOut[2].op = "verifyProof" /\ cOut[2].st = "returned" /\ cOut[2].verified
    /\ cHeap.doc.proof.defined

\* the exported document was imported as it was exported
ImportedExported ==
    /\ kDoc.st = "returned"
    /\ kImp.st = "returned"
    /\ kImp.variant = "exported"

\* the identifier toJwk writes for a keypair
ThumbprintId(kp) ==
    kp.controller \o <<"#">> \o getJwkThumbprint(keyToJwk(kp.publicKey, PublicKeyKind).val)

\* C30: the keypair imported from the document exported as multibase or as
\* jwk has the id and the controller of the original keypair
C30_IdAndControllerPreserved ==
    ImportedExported =>
        /\ kImp.kp.id = kDoc.from.id
        /\ kImp.kp.controller = kDoc.from.controller

\* C30, as the code has it: the imported keypair has the controller of the
\* original; exported as multibase it has the id of the original, exported
\* as jwk its id is the controller, "#" and the thumbprint of the public JWK
C30_ControllerPreservedIdByType ==
    ImportedExported =>
        /\ kImp.kp.controller = kDoc.from.controller
        /\ kDoc.options.type = "multibase" => kImp.kp.id = kDoc.from.id
        /\ kDoc.options.type = "jwk" => kImp.kp.id = ThumbprintId(kDoc.from)

\* a keypair constructed with an id was exported as jwk with its private
\* key and imported: the imported id is not the id given
C30_JwkImportedUnderThumbprint ==
    /\ ImportedExported
    /\ kDoc.src = "constructed"
    /\ kDoc.options = [flag |-> PrivateKeyKind, type |-> "jwk"]
    /\ kDoc.from.id = GivenId
    /\ kImp.kp.id # GivenId

(***************************************************************************)
(* Concurrent initialize() calls on one Ed25519Keypair.  A call runs up to *)
(* its await of generateKeypair(), resumes when the pair is generated,     *)
(* assigns the keys and, when an identifier is to be set, runs up to the   *)
(* await of generateFingerprint() and resumes to assign the identifier.    *)
(***************************************************************************)
InitCallers == 1..MaxPairs

Frame(pc, fingerprint) == [pc |-> pc, fingerprint |-> fingerprint]

\* an assignment of the private key alone
assignPrivateKey(kp, keypair) == [kp EXCEPT !.privateKey = keypair.privateKey]

\* this.privateKey = keypair.privateKey; this.publicKey = keypair.publicKey
assignKeys(kp, keypair) ==
    [kp EXCEPT !.privateKey = keypair.privateKey, !.publicKey = keypair.publicKey]

\* the frame of a call after the keys were assigned: generateFingerprint() is
\* called when the controller is set and the identifier is not, and reads
\* this.publicKey before its first await
AfterAssign(keyed) ==
    IF keyed.controller # <<>> /\ keyed.id = <<>>
    THEN IF generateFingerprint(keyed).st = "raised"
         THEN Frame("rejected", generateFingerprint(keyed))
         ELSE Frame("fingerprint", generateFingerprint(keyed))
    ELSE Frame("done", NotCalled)

InInit ==
    /\ kCtor \in [id : {<<>>, GivenId}, controller : {<<>>, Controller}, revoked : RevokedDates]
    /\ kKp = Ed25519Keypair(kCtor.id, kCtor.controller, kCtor.revoked)
    /\ kInits = 0
    /\ kDoc = NoExport
    /\ kImp = NoImport
    /\ iCalls = [c \in InitCallers |-> Frame("idle", NotCalled)]
    /\ SigIdle
    /\ PlIdle
    /\ CcIdle
    /\ CdIdle

\* keypair.initialize() is called: it runs up to await generateKeypair()
InCall(c) ==
    /\ iCalls[c].pc = "idle"
    /\ iCalls' = [iCalls EXCEPT ![c] = Frame("generating", NotCalled)]
    /\ UNCHANGED <<kpVars, sigVars, plVars, ccVars, cdVars>>

\* generateKeypair() resolves with the next fresh pair and the call resumes:
\* both keys are assigned and the identifier test is made
InResume(c) ==
    /\ iCalls[c].pc = "generating"
    /\ kInits < MaxPairs
    /\ kInits' = kInits + 1
    /\ kKp' = assignKeys(kKp, generateKeypair(kInits + 1))
    /\ iCalls' = [iCalls EXCEPT ![c] = AfterAssign(assignKeys(kKp, generateKeypair(kInits + 1)))]
    /\ UNCHANGED <<kCtor, kDoc, kImp, sigVars, plVars, ccVars, cdVars>>

\* generateFingerprint() resolves and the call assigns this.id
InAssignId(c) ==
    /\ iCalls[c].pc = "fingerprint"
    /\ kKp' = [kKp EXCEPT !.id = kKp.controller \o <<"#">> \o iCalls[c].fingerprint.val]
    /\ iCalls' = [iCalls EXCEPT ![c] = Frame("done", iCalls[c].fingerprint)]
    /\ UNCHANGED <<kCtor, kInits, kDoc, kImp, sigVars, plVars, ccVars, cdVars>>

InNext ==
    \E c \in InitCallers :
        \/ InCall(c)
        \/ InResume(c)
        \/ InAssignId(c)

InSpec == InInit /\ [][InNext]_vars

\* C29: under every interleaving of concurrent initialize() calls on one
\* keypair, publicKey and privateKey are both unset, or they are the two
\* halves of one generated pair
C29_KeysOfOnePair ==
    \/ ~HasKey(kKp.publicKey) /\ ~HasKey(kKp.privateKey)
    \/ \E p \in 1..kInits :
          /\ kKp.privateKey = generateKeypair(p).privateKey
          /\ kKp.publicKey = generateKeypair(p).publicKey

\* the first call waits for its fingerprint while the second call, resumed
\* after it, has ended: the keypair holds the second pair
C29_SecondPairOverFirst ==
    /\ iCalls # <<>>
    /\ iCalls[1].pc = "fingerprint"
    /\ iCalls[2].pc = "done"
    /\ kKp.publicKey = generateKeypair(2).publicKey
    /\ kKp.privateKey = generateKeypair(2).privateKey

(***************************************************************************)
(* keypair/core.ts, util.ts and key/core.ts of the earlier keypair: the    *)
(* DER and multibase key codec and the seeded key generation.              *)
(***************************************************************************)
MULTIBASE_BASE58_BTC_PREFIX == "z"
MULTIBASE_PUBLIC_PREFIX == <<237, 1>>
MULTIBASE_PRIVATE_PREFIX == <<128, 38>>
DER_PUBLIC_PREFIX == <<48, 42, 48, 5, 6, 3, 43, 101, 112, 3, 33, 0>>
DER_PRIVATE_PREFIX == <<48, 46, 2, 1, 0, 48, 5, 6, 3, 43, 101, 112, 4, 34, 4, 32>>

MultibasePrefix(flag) ==
    IF flag = PrivateKeyKind THEN MULTIBASE_PRIVATE_PREFIX ELSE MULTIBASE_PUBLIC_PREFIX
DerPrefix(flag) ==
    IF flag = PrivateKeyKind THEN DER_PRIVATE_PREFIX ELSE DER_PUBLIC_PREFIX

\* buffer.slice(begin, end) and buffer.slice(begin), positions counted from 0
Slice(buffer, begin, end) ==
    SubSeq(buffer, begin + 1, IF end < Len(buffer) THEN end ELSE Len(buffer))
SliceFrom(buffer, begin) == SubSeq(buffer, begin + 1, Len(buffer))

\* getKeyMaterial(key, flag): every byte of key.slice(0, prefix length) is
\* compared with the prefix byte at its index
getKeyMaterial(key, flag) ==
    IF \E index \in 1..Len(Slice(key, 0, Len(DerPrefix(flag)))) :
           Slice(key, 0, Len(DerPrefix(flag)))[index] # DerPrefix(flag)[index]
    THEN Raised(<<"Expected the buffer to be a ED25519 key!", flag>>)
    ELSE Returned(SliceFrom(key, Len(DerPrefix(flag))))

\* an encoding with the key in front of the prefix
encodeMultibaseKeyFirst(key, prefix) ==
    <<MULTIBASE_BASE58_BTC_PREFIX>> \o encodeBase58(key \o prefix)

\* encodeMultibase(key, prefix), and encodeMultibaseKey(prefix, key) of util.ts
encodeMultibase(key, prefix) ==
    <<MULTIBASE_BASE58_BTC_PREFIX>> \o encodeBase58(prefix \o key)

\* decodeMultibase(multibase, prefix): the throw in the callback of
\* prefix.forEach leaves decodeMultibase; the decoded bytes are returned whole
decodeMultibase(multibase, prefix) ==
    IF ~startsWith(multibase, MULTIBASE_BASE58_BTC_PREFIX)
    THEN Raised("Invalid multibase prefix!")
    ELSE IF decodeBase58(Tail(multibase)).st = "raised" THEN decodeBase58(Tail(multibase))
    ELSE IF \E index \in 1..Len(prefix) :
                \/ index > Len(decodeBase58(Tail(multibase)).val)
                \/ decodeBase58(Tail(multibase)).val[index] # prefix[index]
         THEN Raised("Invalid key prefix!")
    ELSE decodeBase58(Tail(multibase))

\* assertKeyPrefix(key, prefix)
assertKeyPrefix(key, prefix) ==
    IF decodeMultibase(key, prefix).st = "raised" THEN decodeMultibase(key, prefix)
    ELSE Returned(<<>>)

\* isValidKeyPrefix(prefix, key) of util.ts; an absent key is <<>>.  The
\* return false in the callback of prefix.forEach ends the callback, and
\* forEach drops what its callback returns: the function goes on to return true
isValidKeyPrefix(prefix, key) ==
    IF key = <<>> THEN Returned(TRUE)
    ELSE IF ~startsWith(key, MULTIBASE_BASE58_BTC_PREFIX) THEN Returned(FALSE)
    ELSE IF decodeBase58(Tail(key)).st = "raised" THEN decodeBase58(Tail(key))
    ELSE Returned(TRUE)

\* new ED25519Keypair(controller, id, revoked, key) for a public key and
\* new ED25519Keypair(controller, id, revoked, undefined, key) for a private
\* one: the prefix check and, for a public key, the length check
ED25519Keypair(flag, key) ==
    IF isValidKeyPrefix(MultibasePrefix(flag), key).st = "raised"
    THEN isValidKeyPrefix(MultibasePrefix(flag), key)
    ELSE IF ~isValidKeyPrefix(MultibasePrefix(flag), key).val
         THEN Raised(<<"Invalid key prefix!", flag>>)
    ELSE IF /\ flag = PublicKeyKind /\ key # <<>>
            /\ Len(SliceFrom(decodeBase58(Tail(key)).val, Len(MULTIBASE_PUBLIC_PREFIX))) # KeyLen
         THEN Raised("Invalid public key length!")
    ELSE Returned(key)

\* a DER encoding of a seed of any length
seedDerEncodeAnyLength(seed) == Returned(DER_PRIVATE_PREFIX \o seed)

\* _seedDerEncode(seed) of key/core.ts; a seed has 32 bytes, scaled to KeyLen
seedDerEncode(seed) ==
    IF Len(seed) # KeyLen THEN Raised("Invalid seed length!")
    ELSE Returned(DER_PRIVATE_PREFIX \o seed)

\* createPublicKey(privateKey).export({format: "der", type: "spki"}) for the
\* private key createPrivateKey makes of a PKCS8 blob
PublicKeyBuffer(der) == DER_PUBLIC_PREFIX \o PublicOf(SliceFrom(der, Len(DER_PRIVATE_PREFIX)))

\* _getKeyMaterial(keyBuffer) of key/core.ts
KeyMaterialOf(keyBuffer) ==
    IF Slice(keyBuffer, 0, Len(DER_PUBLIC_PREFIX)) = DER_PUBLIC_PREFIX
    THEN Returned(SliceFrom(keyBuffer, Len(DER_PUBLIC_PREFIX)))
    ELSE IF Slice(keyBuffer, 0, Len(DER_PRIVATE_PREFIX)) = DER_PRIVATE_PREFIX
         THEN Returned(SliceFrom(keyBuffer, Len(DER_PRIVATE_PREFIX)))
    ELSE Raised("Expected the buffer to be a ED25519 public or private key!")

\* generateRawKeypair(seed) of key/core.ts, for the seed supplied or drawn
RawKeypairOf(seed, der, publicKeyBytes) ==
    IF der.st = "raised" THEN der
    ELSE IF publicKeyBytes.st = "raised" THEN publicKeyBytes
    ELSE Returned([publicKey |-> publicKeyBytes.val, privateKey |-> seed \o publicKeyBytes.val])
generateRawKeypair(seed) ==
    RawKeypairOf(seed, seedDerEncode(seed),
                 IF seedDerEncode(seed).st = "raised" THEN seedDerEncode(seed)
                 ELSE KeyMaterialOf(PublicKeyBuffer(seedDerEncode(seed).val)))

(***************************************************************************)
(* Key codec calls: a caller encodes raw key material, alters bytes of the *)
(* encoding and decodes it, and generates keypairs from seeds.             *)
(***************************************************************************)
\* the bytes a raw key material is made of
MaterialBytes == {0, 1, 255}
Materials == [1..KeyLen -> MaterialBytes]

\* what a caller adds to one byte to change it
Deltas == {1, 128}

\* the bytes with the byte at a position changed; position 0 changes none
ChangeByte(bytes, position, delta) ==
    [ index \in 1..Len(bytes) |->
        IF index = position THEN (bytes[index] + delta) % ByteRadix ELSE bytes[index] ]

\* the multicodec bytes of the key under test, one prefix byte changed
Multicodec(flag, position, delta) ==
    ChangeByte(MultibasePrefix(flag) \o dIn, position, delta)

\* the DER blobs a caller hands to getKeyMaterial
BlobForms == {"whole", "changed", "otherFlag", "short"}
Blob(form, flag, position, delta) ==
    CASE form = "whole" -> DerPrefix(flag) \o dIn
      [] form = "changed" -> ChangeByte(DerPrefix(flag) \o dIn, position, delta)
      [] form = "otherFlag" ->
            DerPrefix(IF flag = PrivateKeyKind THEN PublicKeyKind ELSE PrivateKeyKind) \o dIn
      [] OTHER -> SubSeq(DerPrefix(flag), 1, position - 1)

\* the seeds a caller supplies: the key material cut or lengthened
Seed(length) == [index \in 1..length |-> IF index <= KeyLen THEN dIn[index] ELSE 7]

CodecCall(op, flag, arg, out) == [op |-> op, flag |-> flag, arg |-> arg, out |-> out]

CdInit ==
    /\ dIn \in Materials
    /\ dOut = NoCodecCall
    /\ SigIdle
    /\ KpIdle
    /\ PlIdle
    /\ CcIdle
    /\ InIdle

\* decodeMultibase(key, prefix) of a key whose prefix byte was changed
CdDecodeMultibase(flag, position, delta) ==
    /\ dOut' = CodecCall("decodeMultibase", flag, Multicodec(flag, position, delta),
                   decodeMultibase(<<MULTIBASE_BASE58_BTC_PREFIX>>
                                       \o encodeBase58(Multicodec(flag, position, delta)),
                                   MultibasePrefix(flag)))
    /\ UNCHANGED <<dIn, sigVars, kpVars, plVars, ccVars, inVars>>

\* decodeMultibase(encodeMultibase(material, prefix), prefix)
CdEncodeDecode(flag) ==
    /\ dOut' = CodecCall("encodeMultibase", flag, dIn,
                   decodeMultibase(encodeMultibase(dIn, MultibasePrefix(flag)),
                                   MultibasePrefix(flag)))
    /\ UNCHANGED <<dIn, sigVars, kpVars, plVars, ccVars, inVars>>

\* assertKeyPrefix(key, prefix) of a key whose prefix byte was changed
CdAssertKeyPrefix(flag, position, delta) ==
    /\ dOut' = CodecCall("assertKeyPrefix", flag, Multicodec(flag, position, delta),
                   assertKeyPrefix(<<MULTIBASE_BASE58_BTC_PREFIX>>
                                       \o encodeBase58(Multicodec(flag, position, delta)),
                                   MultibasePrefix(flag)))
    /\ UNCHANGED <<dIn, sigVars, kpVars, plVars, ccVars, inVars>>

\* new ED25519Keypair(...) with a key whose prefix byte was changed
CdConstruct(flag, position, delta) ==
    /\ dOut' = CodecCall("ED25519Keypair", flag, Multicodec(flag, position, delta),
                   ED25519Keypair(flag, <<MULTIBASE_BASE58_BTC_PREFIX>>
                                            \o encodeBase58(Multicodec(flag, position, delta))))
    /\ UNCHANGED <<dIn, sigVars, kpVars, plVars, ccVars, inVars>>

\* getKeyMaterial(blob, flag)
CdGetKeyMaterial(form, flag, position, delta) ==
    /\ position \in 1..Len(DerPrefix(flag))
    /\ dOut' = CodecCall("getKeyMaterial", flag, Blob(form, flag, position, delta),
                   getKeyMaterial(Blob(form, flag, position, delta), flag))
    /\ UNCHANGED <<dIn, sigVars, kpVars, plVars, ccVars, inVars>>

\* generateRawKeypair(seed) with a seed of the given length
CdGenerateSeeded(length) ==
    /\ dOut' = CodecCall("generateRawKeypair", "seeded", Seed(length),
                   generateRawKeypair(Seed(length)))
    /\ UNCHANGED <<dIn, sigVars, kpVars, plVars, ccVars, inVars>>

\* generateRawKeypair(): the seed is randomBytes(32)
CdGenerateRandom(seed) ==
    /\ dOut' = CodecCall("generateRawKeypair", "random", seed, generateRawKeypair(seed))
    /\ UNCHANGED <<dIn, sigVars, kpVars, plVars, ccVars, inVars>>

CdNext ==
    \/ \E flag \in {PublicKeyKind, PrivateKeyKind}, position \in 0..2, delta \in Deltas :
          \/ CdDecodeMultibase(flag, position, delta)
          \/ CdAssertKeyPrefix(flag, position, delta)
          \/ CdConstruct(flag, position, delta)
    \/ \E flag \in {PublicKeyKind, PrivateKeyKind} : CdEncodeDecode(flag)
    \/ \E form \in BlobForms, flag \in {PublicKeyKind, PrivateKeyKind},
          position \in 1..Len(DER_PRIVATE_PREFIX), delta \in Deltas :
          CdGetKeyMaterial(form, flag, position, delta)
    \/ \E length \in 0..(KeyLen + 1) : CdGenerateSeeded(length)
    \/ \E seed \in Materials : CdGenerateRandom(seed)

CdSpec == CdInit /\ [][CdNext]_vars

\* the checked key was well formed and one byte of its prefix was changed
PrefixChanged ==
    /\ dOut.op \in {"decodeMultibase", "assertKeyPrefix", "ED25519Keypair"}
    /\ Len(dOut.arg) = Len(MultibasePrefix(dOut.flag)) + KeyLen
    /\ \E index \in 1..Len(MultibasePrefix(dOut.flag)) :
          dOut.arg[index] # MultibasePrefix(dOut.flag)[index]

\* C25: a well-formed multibase key in which one byte of the multicodec
\* prefix was changed, at the first or at the second position, is rejected by
\* decodeMultibase, by assertKeyPrefix and by the ED25519Keypair constructor
C25_ChangedPrefixRejected == PrefixChanged => dOut.out.st = "raised"

\* the constructor was handed a private key whose second prefix byte was
\* changed, and returned
C25_ConstructorAcceptedChangedPrefix ==
    /\ PrefixChanged
    /\ dOut.op = "ED25519Keypair"
    /\ dOut.flag = PrivateKeyKind
    /\ dOut.arg[1] = MULTIBASE_PRIVATE_PREFIX[1]
    /\ dOut.arg[2] # MULTIBASE_PRIVATE_PREFIX[2]
    /\ dOut.out.st = "returned"

\* the blob's leading bytes are the DER prefix of the flag, byte for byte
HasDerPrefix(blob, flag) ==
    /\ Len(blob) >= Len(DerPrefix(flag))
    /\ SubSeq(blob, 1, Len(DerPrefix(flag))) = DerPrefix(flag)

\* C26: getKeyMaterial(blob, flag) fails for every blob whose leading bytes
\* are not exactly the DER prefix of the flag: one prefix byte changed, the
\* other flag's prefix, or a blob shorter than the prefix
C26_WrongDerPrefixRejected ==
    (dOut.op = "getKeyMaterial" /\ ~HasDerPrefix(dOut.arg, dOut.flag))
        => dOut.out.st = "raised"

\* getKeyMaterial was handed the empty blob and returned
C26_EmptyBlobAccepted ==
    /\ dOut.op = "getKeyMaterial"
    /\ dOut.arg = <<>>
    /\ dOut.out.st = "returned"

\* C27: decodeMultibase(encodeMultibase(m, p), p) returns exactly m
C27_DecodeReturnsMaterial ==
    dOut.op = "encodeMultibase" => dOut.out = Returned(dIn)

\* C27, as the code has it: decodeMultibase(encodeMultibase(m, p), p) returns
\* the bytes of p followed by the bytes of m
C27_DecodeReturnsPrefixedMaterial ==
    dOut.op = "encodeMultibase" =>
        /\ dOut.out = Returned(MultibasePrefix(dOut.flag) \o dIn)
        /\ SliceFrom(dOut.out.val, Len(MultibasePrefix(dOut.flag))) = dIn

\* a private key material with a leading zero byte was encoded and decoded
C27_PrivateMaterialDecoded ==
    /\ dOut.op = "encodeMultibase"
    /\ dOut.flag = PrivateKeyKind
    /\ dIn[1] = 0
    /\ dOut.out.st = "returned"

\* C28: seeded generateRawKeypair fails with Invalid seed length for every
\* seed whose length is not the seed length, the empty seed included; for a
\* seed of that length it returns the public key derived from the seed and
\* the private key made of the seed and that public key, so that one seed
\* always gives one keypair
C28_SeedLengthExact ==
    (dOut.op = "generateRawKeypair" /\ dOut.flag = "seeded") =>
        IF Len(dOut.arg) # KeyLen
        THEN dOut.out = Raised("Invalid seed length!")
        ELSE dOut.out = Returned([publicKey |-> PublicOf(dOut.arg),
                                  privateKey |-> dOut.arg \o PublicOf(dOut.arg)])

\* generateRawKeypair was handed the empty seed and raised
C28_EmptySeedRejected ==
    /\ dOut.op = "generateRawKeypair"
    /\ dOut.flag = "seeded"
    /\ dOut.arg = <<>>
    /\ dOut.out = Raised("Invalid seed length!")

(***************************************************************************)
(* Signature primitive: a keypair is initialized, messages are signed and  *)
(* signatures verified.                                                    *)
(***************************************************************************)
\* how the caller passes a signature to verify
SigForms == { "unchanged", "multibase", "absent", "noMarker", "badChar" }

SigArgument(form, sig) ==
    CASE form = "unchanged" -> sig
      [] form = "multibase" ->
            IF sig.kind = "Uint8Array" THEN StringVal(base58btc_encode(sig.val)) ELSE sig
      [] form = "noMarker" -> StringVal(encodeBase58(sig.val))
      [] form = "badChar" -> StringVal(<<BASE_58_BTC, "0">> \o encodeBase58(sig.val))
      [] OTHER -> Undefined

SigInit ==
    /\ SigIdle
    /\ KpIdle
    /\ PlIdle
    /\ CcIdle
    /\ InIdle
    /\ CdIdle

\* keypair.initialize()
SigInitialize ==
    /\ sKey.pair < MaxPairs
    /\ LET kp == generateKeypair(sKey.pair + 1)
       IN sKey' = [publicKey |-> kp.publicKey, privateKey |-> kp.privateKey,
                   pair |-> sKey.pair + 1]
    /\ sMsg' = <<>>
    /\ sSig' = NotCalled
    /\ sRes' = NoResult
    /\ UNCHANGED <<kpVars, plVars, ccVars, inVars, cdVars>>

\* signature = await sign(message, keypair.privateKey)
SigSign(m) ==
    /\ sMsg' = m
    /\ sSig' = sign(m, sKey.privateKey)
    /\ sRes' = NoResult
    /\ UNCHANGED <<sKey, kpVars, plVars, ccVars, inVars, cdVars>>

\* result = await verify(message, signature, keypair.publicKey)
SigVerify(m, form) ==
    /\ sSig.st = "returned"
    /\ sRes' = [ form |-> form, message |-> m, key |-> sKey.publicKey,
                 out |-> verify(m, SigArgument(form, sSig.val), sKey.publicKey) ]
    /\ UNCHANGED <<sKey, sMsg, sSig, kpVars, plVars, ccVars, inVars, cdVars>>

\* result = await verify(message, signature, other.publicKey), of a keypair
\* that was never initialized
SigVerifyUnkeyed(m, form) ==
    /\ sSig.st = "returned"
    /\ sRes' = [ form |-> form, message |-> m, key |-> NoKey,
                 out |-> verify(m, SigArgument(form, sSig.val), NoKey) ]
    /\ UNCHANGED <<sKey, sMsg, sSig, kpVars, plVars, ccVars, inVars, cdVars>>

SigNext ==
    \/ SigInitialize
    \/ \E m \in Msgs : SigSign(m)
    \/ \E m \in Msgs, form \in SigForms : SigVerify(m, form)
    \/ \E m \in Msgs, form \in SigForms : SigVerifyUnkeyed(m, form)

SigSpec == SigInit /\ [][SigNext]_vars

\* C3: a verify call that was handed the value sign returned, unchanged, for
\* the message that was signed, under the keypair's own public key, yields a
\* result with verified = true.
C3_SignVerifyRoundTrip ==
    ( /\ sRes.form = "unchanged"
      /\ sRes.message = sMsg
      /\ HasKey(sKey.publicKey) /\ sRes.key = sKey.publicKey )
        => sRes.out.val.verified = TRUE

\* C3: the unchanged return value of sign was verified and rejected because
\* it is a Uint8Array, on which startsWith is not a function
C3_UnchangedRejected ==
    /\ sRes.form = "unchanged"
    /\ sRes.message = sMsg
    /\ HasKey(sKey.publicKey) /\ sRes.key = sKey.publicKey
    /\ sSig.val.kind = "Uint8Array"
    /\ sRes.out.val = [verified |-> FALSE, errors |-> "TypeError"]

\* a signature argument that is a multibase base58-btc string
WellFormed(signature) ==
    /\ signature.kind = "string"
    /\ startsWith(signature.val, BASE_58_BTC)
    /\ \A i \in 2..Len(signature.val) : IsBase58Char(signature.val[i])

\* the signature argument of the last verify call
LastSignature == SigArgument(sRes.form, sSig.val)

\* C15: verify never raises; when the public key is absent or the signature
\* is not a well-formed multibase base58-btc value it returns a result with
\* verified = false and the triggering error in errors.
C15_VerifyFailsClosed ==
    sRes.form # "none" =>
        /\ sRes.out.st = "returned"
        /\ (~HasKey(sRes.key) \/ ~WellFormed(LastSignature)) =>
              (sRes.out.val.verified = FALSE /\ sRes.out.val.errors # "none")

\* C15: verify was called with a well-formed signature and without a public
\* key, and returned the KeyNotFound error in its result
C15_KeyNotFoundReturned ==
    /\ sRes.form = "multibase" /\ WellFormed(LastSignature)
    /\ ~HasKey(sRes.key)
    /\ sRes.out = Returned([verified |-> FALSE, errors |-> "KEY_NOT_FOUND"])

\* C16: sign called without a private key fails with a KeyNotFound error.
C16_SignWithoutKeyNotFound ==
    (sSig.st # "none" /\ ~HasKey(sKey.privateKey))
        => (sSig.st = "raised" /\ sSig.val = "KEY_NOT_FOUND")

\* C16: sign was called with the privateKey of a keypair never initialized
\* and failed with a TypeError
C16_SignWithoutKeyTypeError ==
    /\ ~HasKey(sKey.privateKey)
    /\ sSig.st = "raised" /\ sSig.val = "TypeError"

====
